---- MODULE Spec2Model ----
(***************************************************************************)
(* A model of the semantic retrieval core of app-text-gen:                 *)
(*   semantic_search.py  EmbeddingIndex (the Vector Index)                 *)
(*   rag.py              RAGEngine                                         *)
(*   kb_manager.py       DocumentChunker, DocumentParser, KnowledgeBase    *)
(*                                                                         *)
(* Conventions.                                                            *)
(*  - Python None is a value outside the type it stands in for: NoTime     *)
(*    for a timestamp, NoScore for a similarity; a provider call that      *)
(*    returns None is the outcome Failed.                                  *)
(*  - An embedding is a tuple of integers.  A cosine similarity is kept    *)
(*    exactly, as a pair <<n, d2>> standing for n / sqrt(d2) with d2 > 0;  *)
(*    a threshold is a pair <<tn, td>> standing for tn / td with td > 0.   *)
(*    Comparisons are exact (no floating-point rounding).                  *)
(*  - A text is a sequence of one-character strings.                       *)
(*  - `last` holds the most recent call: its name, its inputs, the         *)
(*    outcomes of the external collaborators it consulted, and what it     *)
(*    returned.                                                            *)
(***************************************************************************)
EXTENDS Integers, Sequences, FiniteSets, TLC

VARIABLES
    entries,              \* EmbeddingIndex.index["entries"]
    index_last_updated,   \* EmbeddingIndex.index["last_updated"]
    embedding_index,      \* RAGEngine.embedding_index: is an index bound?
    enabled,              \* RAGEngine.enabled
    similarity_threshold, \* RAGEngine.similarity_threshold
    context_count,        \* RAGEngine.context_count
    max_context_tokens,   \* RAGEngine.max_context_tokens
    kb_index,             \* KnowledgeBase.index
    kb_index_file,        \* knowledge_base/kb_index.json (<<>>: no file)
    collection_files,     \* knowledge_base/collections/<safe name>.json
    document_files,       \* knowledge_base/documents/<doc id>.json
    now,                  \* the wall clock, in seconds
    last                  \* the most recent call and its result

indexVars == <<entries, index_last_updated>>
ragVars == <<embedding_index, enabled, similarity_threshold, context_count,
             max_context_tokens>>
kbVars == <<kb_index, kb_index_file, collection_files, document_files, now>>
vars == <<indexVars, ragVars, kbVars, last>>

NoTime == -1        \* "last_updated": None
NoScore == <<>>     \* "similarity_score": None

\* RAGEngine.__init__: the defaults of RAG_SIMILARITY_THRESHOLD ("0.15"),
\* RAG_CONTEXT_COUNT and RAG_MAX_CONTEXT_TOKENS
DefaultSimilarityThreshold == <<3, 20>>
DefaultContextCount == 3
DefaultMaxContextTokens == 2000

\* What a call of the Embedding Provider comes back with
Failed == [failed |-> TRUE, value |-> <<>>]
Returned(v) == [failed |-> FALSE, value |-> v]

(***************************************************************************)
(* Bounds of the model.                                                    *)
(***************************************************************************)
MaxEntries == 2     \* entries the index may grow to while it is being indexed
MaxStored == 3      \* entries of an index that is searched
MaxTopK == 2        \* largest top_k a caller passes

ConvIds == {"c1", "c2"}
Times == {0, 1}

\* Which exchanges of a conversation history got a reply
ReplyPatterns == {<<>>, <<TRUE>>, <<FALSE>>, <<TRUE, TRUE>>, <<TRUE, FALSE>>,
                  <<FALSE, TRUE>>, <<FALSE, FALSE>>}

\* What the Embedding Provider may return for one text.  <<1>> has another
\* dimensionality than the rest; <<0, 0>> is the all-zero vector.
Vectors == {<<1, 0>>, <<1, 1>>, <<0, 0>>, <<1>>}
QueryVectors == {<<1, 0>>, <<1, 1>>, <<0, 0>>}
\* index_conversation stores vectors without looking into them: two values
\* tell a replaced vector from the one replacing it.
OpaqueVectors == {<<1, 0>>, <<1, 1>>}
Thresholds == {<<0, 1>>, <<1, 2>>, <<1, 1>>}

(***************************************************************************)
(* Generic helpers.                                                        *)
(***************************************************************************)
Min(a, b) == IF a <= b THEN a ELSE b

Range(s) == {s[i] : i \in 1..Len(s)}

\* Python s[:n] for n >= 0
Take(s, n) == SubSeq(s, 1, Min(n, Len(s)))

\* Python zip(a, b): as long as the shorter one
ZipLen(a, b) == Min(Len(a), Len(b))

\* All sequences over S of length exactly n / at most n
SeqsOfLen(S, n) == [1..n -> S]
SeqsUpTo(S, n) == UNION {SeqsOfLen(S, k) : k \in 0..n}

(***************************************************************************)
(* Conversation histories the application produces: each exchange is a     *)
(* user message followed by the assistant's reply, which is missing when   *)
(* generation failed (app.py generate_text_streaming).                     *)
(***************************************************************************)
UserMsg(k) == [role |-> "user", content |-> "u" \o ToString(k)]
AssistantMsg(k) == [role |-> "assistant", content |-> "a" \o ToString(k)]

RECURSIVE HistoryOf(_, _)
HistoryOf(replied, k) ==
    IF k > Len(replied) THEN <<>>
    ELSE <<UserMsg(k)>>
         \o (IF replied[k] THEN <<AssistantMsg(k)>> ELSE <<>>)
         \o HistoryOf(replied, k + 1)

Histories == {HistoryOf(r, 1) : r \in ReplyPatterns}

\* [msg for msg in messages if msg.get("role") == role]
RECURSIVE FilterRole(_, _)
FilterRole(messages, role) ==
    IF messages = <<>> THEN <<>>
    ELSE (IF Head(messages).role = role THEN <<Head(messages)>> ELSE <<>>)
         \o FilterRole(Tail(messages), role)

\* f"{conversation_id}_pair_{i}"
PairId(conversation_id, i) == conversation_id \o "_pair_" \o ToString(i)

\* The pair_metadata list of index_conversation; i counts from 0 as in Python.
PairMetadata(conversation_id, messages) ==
    LET user_messages == FilterRole(messages, "user")
        assistant_messages == FilterRole(messages, "assistant")
        n == Min(Len(user_messages), Len(assistant_messages))
    IN  [j \in 1..n |->
            [pair_id |-> PairId(conversation_id, j - 1),
             conversation_id |-> conversation_id,
             user_message |-> user_messages[j].content,
             assistant_message |-> assistant_messages[j].content,
             pair_index |-> j - 1]]

(***************************************************************************)
(* Embedding Provider (AzureEmbeddings).  The network call is external:    *)
(* its outcome is an input of the action that makes the call.              *)
(***************************************************************************)
\* embed_text: a vector, or None after a caught exception
EmbedTextOutcomes == {Returned(v) : v \in QueryVectors} \cup {Failed}

\* embed_batch(texts) for n texts: None after a caught exception, else the
\* list of vectors the service answered with (normally one per text).
EmbedBatchOutcomes(V, n) ==
    IF n = 0 THEN {Failed}   \* not called: the outcome is not consulted
    ELSE {Returned(vs) : vs \in SeqsUpTo(V, n)} \cup {Failed}

(***************************************************************************)
(* EmbeddingIndex.index_conversation                                       *)
(***************************************************************************)
\* list.index(x): position of the first element equal to x
ListIndex(list, x) == CHOOSE i \in 1..Len(list) :
                        list[i] = x /\ \A j \in 1..(i - 1) : list[j] # x

\* [e for e in entries if e.get("pair_id") == pair_id]
RECURSIVE WithPairId(_, _)
WithPairId(es, pair_id) ==
    IF es = <<>> THEN <<>>
    ELSE (IF Head(es).pair_id = pair_id THEN <<Head(es)>> ELSE <<>>)
         \o WithPairId(Tail(es), pair_id)

\* {**metadata, "embedding": embedding, "similarity_score": None}
MakeEntry(metadata, embedding) ==
    [pair_id |-> metadata.pair_id,
     conversation_id |-> metadata.conversation_id,
     user_message |-> metadata.user_message,
     assistant_message |-> metadata.assistant_message,
     pair_index |-> metadata.pair_index,
     embedding |-> embedding,
     similarity_score |-> NoScore]

\* The upsert without the lookup of an existing entry
UpsertEntry_AlwaysAppend(es, entry) == Append(es, entry)

\* One turn of the "Add to index" loop: replace the entry in place when the
\* pair_id is already present, append otherwise.
UpsertEntry(es, entry) ==
    LET existing == WithPairId(es, entry.pair_id)
    IN  IF existing # <<>>
        THEN [es EXCEPT ![ListIndex(es, existing[1])] = entry]
        ELSE Append(es, entry)

\* for metadata, embedding in zip(pair_metadata, embeddings), from turn k on
RECURSIVE UpsertAll(_, _, _, _)
UpsertAll(es, pair_metadata, embeddings, k) ==
    IF k > ZipLen(pair_metadata, embeddings) THEN es
    ELSE UpsertAll(UpsertEntry(es, MakeEntry(pair_metadata[k], embeddings[k])),
                   pair_metadata, embeddings, k + 1)

\* How a call of index_conversation ends
IndexOutcome(pair_metadata, embeddings) ==
    IF pair_metadata = <<>> THEN "no_pairs"
    ELSE IF embeddings.failed THEN "embed_failed"
    ELSE "indexed"

IndexConversation(conversation_id, messages, embeddings, t) ==
    LET pair_metadata == PairMetadata(conversation_id, messages)
        outcome == IndexOutcome(pair_metadata, embeddings)
    IN  /\ entries' = IF outcome = "indexed"
                      THEN UpsertAll(entries, pair_metadata, embeddings.value, 1)
                      ELSE entries
        /\ Len(entries') <= MaxEntries
        /\ index_last_updated' = IF outcome = "indexed" THEN t
                                 ELSE index_last_updated
        /\ last' = [op |-> "index_conversation",
                    conversation_id |-> conversation_id,
                    pair_metadata |-> pair_metadata,
                    embeddings |-> embeddings,
                    outcome |-> outcome,
                    before |-> [entries |-> entries,
                                last_updated |-> index_last_updated]]
        /\ UNCHANGED <<ragVars, kbVars>>

(***************************************************************************)
(* Cosine similarity (sklearn.metrics.pairwise.cosine_similarity on two    *)
(* one-row matrices) and EmbeddingIndex.search                             *)
(***************************************************************************)
RECURSIVE DotFrom(_, _, _)
DotFrom(a, b, i) == IF i > Len(a) THEN 0 ELSE a[i] * b[i] + DotFrom(a, b, i + 1)

Dot(a, b) == DotFrom(a, b, 1)

\* The squared norm as it is, 0 for an all-zero vector
NormSq_Unguarded(a) == Dot(a, a)

\* sklearn normalises each row by its norm, a zero norm being replaced by 1,
\* so an all-zero vector has similarity 0 with everything.
NormSq(a) == IF Dot(a, a) = 0 THEN 1 ELSE Dot(a, a)

\* cosine_similarity raises ValueError when the row lengths differ
SimilarityRaises(q, e) == Len(q) # Len(e)

CosineSimilarity(q, e) == <<Dot(q, e), NormSq(q) * NormSq(e)>>

\* a * sqrt(x) >= b * sqrt(y), for x, y > 0
GeqRoots(a, x, b, y) ==
    IF a >= 0 /\ b <= 0 THEN TRUE
    ELSE IF a < 0 /\ b >= 0 THEN FALSE
    ELSE IF a >= 0 THEN a * a * x >= b * b * y
    ELSE a * a * x <= b * b * y

\* s1 >= s2 for two similarities
SimGeq(s1, s2) == GeqRoots(s1[1], s2[2], s2[1], s1[2])

SimGt(s1, s2) == ~SimGeq(s2, s1)

\* t1 <= t2 for two thresholds
ThresholdLeq(t1, t2) == t1[1] * t2[2] <= t2[1] * t1[2]

\* The comparison turned round: similarity <= similarity_threshold
ClearsThreshold_Reversed(s, threshold) ==
    GeqRoots(threshold[1], s[2], s[1] * threshold[2], 1)

\* similarity >= similarity_threshold
ClearsThreshold(s, threshold) == GeqRoots(s[1] * threshold[2], 1, threshold[1], s[2])

\* The loop over the entries: the copies of the entries whose similarity
\* clears the threshold, scored, in storage order.
RECURSIVE ScoreAndFilter(_, _, _)
ScoreAndFilter(es, query_embedding, threshold) ==
    IF es = <<>> THEN <<>>
    ELSE LET similarity == CosineSimilarity(query_embedding, Head(es).embedding)
         IN  (IF ClearsThreshold(similarity, threshold)
              THEN <<[Head(es) EXCEPT !.similarity_score = similarity]>>
              ELSE <<>>)
             \o ScoreAndFilter(Tail(es), query_embedding, threshold)

\* The insertion of an unstable sort: r goes in front of the elements whose
\* score equals r's
RECURSIVE InsertDesc_BeforeEqual(_, _)
InsertDesc_BeforeEqual(sorted, r) ==
    IF sorted = <<>> THEN <<r>>
    ELSE IF SimGt(Head(sorted).similarity_score, r.similarity_score)
         THEN <<Head(sorted)>> \o InsertDesc_BeforeEqual(Tail(sorted), r)
         ELSE <<r>> \o sorted

\* Place r in a list sorted by descending score, behind every element whose
\* score is >= r's: list.sort(reverse=True) keeps equal keys in their order.
RECURSIVE InsertDesc(_, _)
InsertDesc(sorted, r) ==
    IF sorted = <<>> THEN <<r>>
    ELSE IF SimGeq(Head(sorted).similarity_score, r.similarity_score)
         THEN <<Head(sorted)>> \o InsertDesc(Tail(sorted), r)
         ELSE <<r>> \o sorted

\* The sort left out: results stay in storage order
SortDesc_Unsorted(rs) == rs

\* results.sort(key=lambda x: x["similarity_score"], reverse=True)
RECURSIVE SortDescFrom(_, _, _)
SortDescFrom(sorted, rs, k) ==
    IF k > Len(rs) THEN sorted
    ELSE SortDescFrom(InsertDesc(sorted, rs[k]), rs, k + 1)

SortDesc(rs) == SortDescFrom(<<>>, rs, 1)

\* Does the scoring loop raise?  It does at the first entry whose stored
\* vector has another length than the query's.
ScoringRaises(es, query_embedding) ==
    \E i \in 1..Len(es) : SimilarityRaises(query_embedding, es[i].embedding)

\* EmbeddingIndex.search, given what embed_text answers if it is called:
\* [raised, embed_called, results]
SearchCall(es, query_embedding, top_k, threshold) ==
    IF es = <<>>
    THEN [raised |-> FALSE, embed_called |-> FALSE, results |-> <<>>]
    ELSE IF query_embedding.failed
    THEN [raised |-> FALSE, embed_called |-> TRUE, results |-> <<>>]
    ELSE IF ScoringRaises(es, query_embedding.value)
    THEN [raised |-> TRUE, embed_called |-> TRUE, results |-> <<>>]
    ELSE [raised |-> FALSE, embed_called |-> TRUE,
          results |-> Take(SortDesc(ScoreAndFilter(es, query_embedding.value,
                                                   threshold)),
                           top_k)]

\* search writing each score into the stored entry instead of a copy of it
Search_ScoresInPlace(query_embedding, top_k, threshold) ==
    LET call == SearchCall(entries, query_embedding, top_k, threshold)
        scored == entries # <<>> /\ ~query_embedding.failed /\ ~call.raised
    IN  /\ last' = [op |-> "search",
                    query_embedding |-> query_embedding,
                    embed_called |-> call.embed_called,
                    top_k |-> top_k,
                    similarity_threshold |-> threshold,
                    raised |-> call.raised,
                    results |-> call.results]
        /\ entries' =
              [i \in 1..Len(entries) |->
                  IF scored /\ ClearsThreshold(
                                  CosineSimilarity(query_embedding.value,
                                                   entries[i].embedding),
                                  threshold)
                  THEN [entries[i] EXCEPT !.similarity_score =
                            CosineSimilarity(query_embedding.value,
                                             entries[i].embedding)]
                  ELSE entries[i]]
        /\ UNCHANGED <<kbVars, ragVars, index_last_updated>>

Search(query_embedding, top_k, threshold) ==
    LET call == SearchCall(entries, query_embedding, top_k, threshold)
    IN  /\ last' = [op |-> "search",
                    query_embedding |-> query_embedding,
                    embed_called |-> call.embed_called,
                    top_k |-> top_k,
                    similarity_threshold |-> threshold,
                    raised |-> call.raised,
                    results |-> call.results]
        /\ UNCHANGED <<kbVars, indexVars, ragVars>>

(***************************************************************************)
(* The Vector Index under indexing: SpecIndex                              *)
(***************************************************************************)
\* RAGEngine.__init__ with the defaults of the three environment settings
\* KnowledgeBase.__init__ in an empty working directory: _load_index finds no
\* index file
EmptyKBIndex == [collections |-> <<>>, documents |-> <<>>, last_updated |-> NoTime]

NoFiles == [f \in {} |-> f]

InitKB ==
    /\ kb_index = EmptyKBIndex
    /\ kb_index_file = <<>>
    /\ collection_files = NoFiles
    /\ document_files = NoFiles
    /\ now = 0

InitRag ==
    /\ enabled = FALSE
    /\ similarity_threshold = DefaultSimilarityThreshold
    /\ context_count = DefaultContextCount
    /\ max_context_tokens = DefaultMaxContextTokens

Init ==
    /\ entries = <<>>
    /\ index_last_updated = NoTime
    /\ embedding_index = TRUE
    /\ InitRag
    /\ InitKB
    /\ last = [op |-> "init"]

DoIndexConversation ==
    \E conversation_id \in ConvIds, messages \in Histories, t \in Times :
        \E embeddings \in EmbedBatchOutcomes(OpaqueVectors,
                              Len(PairMetadata(conversation_id, messages))) :
            IndexConversation(conversation_id, messages, embeddings, t)

NextIndex == DoIndexConversation

SpecIndex == Init /\ [][NextIndex]_vars

\* Position of the entries with a given pair_id
PositionsOf(es, pair_id) == {i \in 1..Len(es) : es[i].pair_id = pair_id}

\* The pairs the last successful index_conversation call wrote
Written == 1..ZipLen(last.pair_metadata, last.embeddings.value)

\* C1: after any sequence of index_conversation calls no two entries share a
\* pair_id, and every pair the last call indexed has exactly one entry, which
\* stores the vector that call got for it (also when the key was there before
\* with another vector).
C1_UpsertIdempotent ==
    /\ \A i, j \in 1..Len(entries) :
          entries[i].pair_id = entries[j].pair_id => i = j
    /\ (last.op = "index_conversation" /\ last.outcome = "indexed") =>
          \A k \in Written :
              LET at == PositionsOf(entries, last.pair_metadata[k].pair_id)
              IN  /\ Cardinality(at) = 1
                  /\ \A i \in at : entries[i].embedding = last.embeddings.value[k]

\* A key indexed with one vector is indexed again with another one.
C1_Witness ==
    /\ last.op = "index_conversation" /\ last.outcome = "indexed"
    /\ \E k \in Written :
          \E i \in PositionsOf(last.before.entries, last.pair_metadata[k].pair_id) :
              /\ last.before.entries[i].embedding # last.embeddings.value[k]
              /\ Len(last.before.entries) = MaxEntries

(***************************************************************************)
(* Searching an index: SpecSearch.  search reads the index and leaves it   *)
(* alone, so the index is drawn once, from the contents that calls of      *)
(* index_conversation on an empty index produce.                           *)
(***************************************************************************)
\* The entries after one successful call of index_conversation on es
AfterIndexingOf(es, conversation_ids) ==
    UNION {{UpsertAll(es, PairMetadata(c, m), vs, 1) :
                vs \in SeqsUpTo(Vectors, Len(PairMetadata(c, m)))} :
           c \in conversation_ids, m \in Histories}

AfterIndexing(es) == AfterIndexingOf(es, ConvIds)

IndexContents ==
    {es \in UNION {AfterIndexing(es1) : es1 \in AfterIndexing(<<>>)} :
        Len(es) <= MaxStored}

InitSearch ==
    /\ entries \in IndexContents
    /\ index_last_updated = NoTime
    /\ embedding_index = TRUE
    /\ InitRag
    /\ InitKB
    /\ last = [op |-> "init"]

DoSearch ==
    \E query_embedding \in EmbedTextOutcomes, top_k \in 0..MaxTopK,
       threshold \in Thresholds :
        Search(query_embedding, top_k, threshold)

NextSearch == DoSearch

SpecSearch == InitSearch /\ [][NextSearch]_vars

\* The last call was a search that embedded the query and returned a list
SearchReturned ==
    /\ last.op = "search"
    /\ last.embed_called /\ ~last.query_embedding.failed
    /\ ~last.raised

\* The similarity of the last search's query to entry i
SimilarityTo(i) ==
    CosineSimilarity(last.query_embedding.value, entries[i].embedding)

\* The entries that clear the last search's threshold
Qualifying ==
    {i \in 1..Len(entries) :
        ClearsThreshold(SimilarityTo(i), last.similarity_threshold)}

\* The entry a result is the scored copy of
SourceOf(r) ==
    {i \in 1..Len(entries) :
        r = [entries[i] EXCEPT !.similarity_score = SimilarityTo(i)]}

\* C2: a search that returns gives back scored copies of distinct entries
\* whose similarity is >= the threshold, in non-increasing order of
\* similarity, at most top_k of them, as many as top_k and the number of
\* qualifying entries allow, and no qualifying entry left out ranks above a
\* returned one.
C2_SearchRankedTopK ==
    SearchReturned =>
        LET rs == last.results
        IN  /\ \A j \in 1..Len(rs) : SourceOf(rs[j]) \cap Qualifying # {}
            /\ \A j, k \in 1..Len(rs) :
                  /\ j < k => SimGeq(rs[j].similarity_score, rs[k].similarity_score)
                  /\ j # k => rs[j].pair_id # rs[k].pair_id
            /\ Len(rs) <= last.top_k
            /\ Len(rs) = Min(last.top_k, Cardinality(Qualifying))
            /\ \A i \in Qualifying :
                  (\A j \in 1..Len(rs) : i \notin SourceOf(rs[j])) =>
                      \A j \in 1..Len(rs) :
                          SimGeq(rs[j].similarity_score, SimilarityTo(i))

\* A search cut by top_k, whose best entry is not the first one stored, and
\* which drops an entry below the threshold.
C2_Witness ==
    /\ SearchReturned
    /\ Len(last.results) = 2
    /\ Cardinality(Qualifying) > 2
    /\ SimGt(last.results[1].similarity_score, last.results[2].similarity_score)
    /\ last.results[1].pair_id # entries[1].pair_id

\* The number of results of the last search's query under other settings
CountWith(top_k, threshold) ==
    Len(SearchCall(entries, last.query_embedding, top_k,
                   threshold).results)

\* C3: with the index and the query vector fixed, a higher threshold never
\* gives more results, and a lower top_k of k gives at most k.
C3_SearchMonotone ==
    SearchReturned =>
        /\ \A t \in Thresholds :
              ThresholdLeq(last.similarity_threshold, t) =>
                  CountWith(last.top_k, t) <= Len(last.results)
        /\ \A k \in 0..last.top_k :
              CountWith(k, last.similarity_threshold) <= k

\* A search with two results that a higher threshold and a lower top_k
\* both cut down.
C3_Witness ==
    /\ SearchReturned
    /\ Len(last.results) = 2
    /\ \E t \in Thresholds :
          /\ ThresholdLeq(last.similarity_threshold, t)
          /\ CountWith(last.top_k, t) = 1
    /\ CountWith(1, last.similarity_threshold) = 1

(***************************************************************************)
(* RAGEngine (rag.py)                                                      *)
(***************************************************************************)
\* Bounds of interactive_rag_settings
MinThreshold == <<0, 1>>
MaxThreshold == <<1, 1>>
MinContextCount == 1
MaxContextCount == 10
MinContextTokens == 500
MaxContextTokens == 5000

\* What the user may type into the settings menu
ThresholdInputs == Thresholds \cup {<<3, 2>>}
ContextCountInputs == {0, 1, 2, 11}
ContextTokensInputs == {499, 500}

SystemPrompts == {"", "Be brief."}

\* enable() with the guard on the index left out
EnableCall_Unguarded(has_index) == [sets_enabled |-> TRUE, ret |-> TRUE]

\* enable(): does it set enabled to True, and what it returns
EnableCall(has_index) ==
    IF ~has_index THEN [sets_enabled |-> FALSE, ret |-> FALSE]
    ELSE [sets_enabled |-> TRUE, ret |-> TRUE]

Enable ==
    LET call == EnableCall(embedding_index)
    IN  /\ enabled' = IF call.sets_enabled THEN TRUE ELSE enabled
        /\ last' = [op |-> "enable", ret |-> call.ret, was_enabled |-> enabled]
        /\ UNCHANGED <<kbVars, indexVars, embedding_index, similarity_threshold,
                       context_count, max_context_tokens>>

Disable ==
    /\ enabled' = FALSE
    /\ last' = [op |-> "disable", was_enabled |-> enabled]
    /\ UNCHANGED <<kbVars, indexVars, embedding_index, similarity_threshold,
                   context_count, max_context_tokens>>

\* toggle() flipping the flag itself instead of calling enable()
Toggle_FlipsFlag ==
    /\ enabled' = ~enabled
    /\ last' = [op |-> "toggle", was_enabled |-> enabled]
    /\ UNCHANGED <<kbVars, indexVars, embedding_index, similarity_threshold,
                   context_count, max_context_tokens>>

\* toggle(): disable() when enabled, enable() otherwise
Toggle ==
    /\ enabled' = IF enabled THEN FALSE
                  ELSE IF EnableCall(embedding_index).sets_enabled THEN TRUE
                  ELSE enabled
    /\ last' = [op |-> "toggle", was_enabled |-> enabled]
    /\ UNCHANGED <<kbVars, indexVars, embedding_index, similarity_threshold,
                   context_count, max_context_tokens>>

\* interactive_rag_settings, option 2
SetSimilarityThreshold(threshold) ==
    LET valid == ThresholdLeq(MinThreshold, threshold)
                 /\ ThresholdLeq(threshold, MaxThreshold)
    IN  /\ similarity_threshold' = IF valid THEN threshold
                                   ELSE similarity_threshold
        /\ last' = [op |-> "set_similarity_threshold", input |-> threshold,
                    accepted |-> valid]
        /\ UNCHANGED <<kbVars, indexVars, embedding_index, enabled, context_count,
                       max_context_tokens>>

\* interactive_rag_settings, option 3
SetContextCount(count) ==
    LET valid == MinContextCount <= count /\ count <= MaxContextCount
    IN  /\ context_count' = IF valid THEN count ELSE context_count
        /\ last' = [op |-> "set_context_count", input |-> count,
                    accepted |-> valid]
        /\ UNCHANGED <<kbVars, indexVars, embedding_index, enabled,
                       similarity_threshold, max_context_tokens>>

\* interactive_rag_settings, option 4
SetMaxContextTokens(tokens) ==
    LET valid == MinContextTokens <= tokens /\ tokens <= MaxContextTokens
    IN  /\ max_context_tokens' = IF valid THEN tokens ELSE max_context_tokens
        /\ last' = [op |-> "set_max_context_tokens", input |-> tokens,
                    accepted |-> valid]
        /\ UNCHANGED <<kbVars, indexVars, embedding_index, enabled,
                       similarity_threshold, context_count>>

\* sum(r['similarity_score'] for r in results) / len(results), kept as the
\* scores summed and their number; 0.0 is the empty sum.
ZeroAverage == <<<<>>, 1>>
Average(results) ==
    <<[j \in 1..Len(results) |-> results[j].similarity_score], Len(results)>>

NoRetrieval ==
    [raised |-> FALSE, search_called |-> FALSE, embed_called |-> FALSE,
     search_raised |-> FALSE, results |-> <<>>, avg_similarity |-> ZeroAverage]

\* retrieve_context without its try/except
RetrieveContextCall_NoTry(is_enabled, has_index, es, query_embedding, threshold, count) ==
    IF ~is_enabled \/ ~has_index THEN NoRetrieval
    ELSE LET call == SearchCall(es, query_embedding, count, threshold)
         IN  [raised |-> call.raised,
              search_called |-> TRUE,
              embed_called |-> call.embed_called,
              search_raised |-> call.raised,
              results |-> call.results,
              avg_similarity |-> IF call.results = <<>> THEN ZeroAverage
                                 ELSE Average(call.results)]

\* retrieve_context with the gate on enabled left out
RetrieveContextCall_Ungated(is_enabled, has_index, es, query_embedding, threshold, count) ==
    LET call == SearchCall(es, query_embedding, count, threshold)
    IN  [raised |-> FALSE,
         search_called |-> TRUE,
         embed_called |-> call.embed_called,
         search_raised |-> call.raised,
         results |-> call.results,
         avg_similarity |-> IF call.results = <<>> THEN ZeroAverage
                            ELSE Average(call.results)]

\* retrieve_context(query), given what embed_text answers if it is called.
\* raised: does an exception reach the caller?  An exception of search is
\* caught by the except clause, which returns ([], 0.0).
RetrieveContextCall(is_enabled, has_index, es, query_embedding, threshold, count) ==
    IF ~is_enabled \/ ~has_index THEN NoRetrieval
    ELSE LET call == SearchCall(es, query_embedding, count, threshold)
         IN  [raised |-> FALSE,
              search_called |-> TRUE,
              embed_called |-> call.embed_called,
              search_raised |-> call.raised,
              results |-> IF call.raised THEN <<>> ELSE call.results,
              avg_similarity |->
                  IF call.raised \/ call.results = <<>> THEN ZeroAverage
                  ELSE Average(call.results)]

\* retrieve_context searching with the settings of the start of the program
RetrieveContext_StartupConfig(query_embedding) ==
    /\ last' = [op |-> "retrieve_context",
                query_embedding |-> query_embedding,
                call |-> RetrieveContextCall(enabled, embedding_index, entries,
                             query_embedding, DefaultSimilarityThreshold,
                             DefaultContextCount)]
    /\ UNCHANGED <<kbVars, indexVars, ragVars>>

RetrieveContext(query_embedding) ==
    /\ last' = [op |-> "retrieve_context",
                query_embedding |-> query_embedding,
                call |-> RetrieveContextCall(enabled, embedding_index, entries,
                             query_embedding, similarity_threshold,
                             context_count)]
    /\ UNCHANGED <<kbVars, indexVars, ragVars>>

\* dict.get(key, default)
Get(r, key, default) == IF key \in DOMAIN r THEN r[key] ELSE default

\* f"{similarity_pct:.1f}": the score times 100, written out exactly
Percent(score) ==
    "100*" \o ToString(score[1]) \o "/sqrt(" \o ToString(score[2]) \o ")"

KBTextPrefix == 300
MessagePrefix == 200

\* One turn of the loop with the texts written out in full
FormatResult_Untruncated(i, result) ==
    LET pct == Percent(result.similarity_score)
    IN  IF Get(result, "type", "None") = "kb_document"
        THEN "\n[KB Context " \o ToString(i) \o " - Relevance: " \o pct \o "%]\n"
             \o "Document: " \o Get(result, "doc_title", "Unknown") \o "\n"
             \o "Collection: " \o Get(result, "collection", "Unknown") \o "\n"
             \o "Text: " \o Get(result, "text", "") \o "...\n"
        ELSE "\n[Conversation " \o ToString(i) \o " - Relevance: " \o pct \o "%]\n"
             \o "User: " \o Get(result, "user_message", "") \o "...\n"
             \o "Assistant: " \o Get(result, "assistant_message", "") \o "...\n"

\* One turn of the loop of format_context, for result number i (from 1)
FormatResult(i, result) ==
    LET pct == Percent(result.similarity_score)
    IN  IF Get(result, "type", "None") = "kb_document"
        THEN "\n[KB Context " \o ToString(i) \o " - Relevance: " \o pct \o "%]\n"
             \o "Document: " \o Get(result, "doc_title", "Unknown") \o "\n"
             \o "Collection: " \o Get(result, "collection", "Unknown") \o "\n"
             \o "Text: " \o Take(Get(result, "text", ""), KBTextPrefix) \o "...\n"
        ELSE "\n[Conversation " \o ToString(i) \o " - Relevance: " \o pct \o "%]\n"
             \o "User: "
             \o Take(Get(result, "user_message", ""), MessagePrefix) \o "...\n"
             \o "Assistant: "
             \o Take(Get(result, "assistant_message", ""), MessagePrefix)
             \o "...\n"

RECURSIVE FormatResultsFrom(_, _)
FormatResultsFrom(context_results, i) ==
    IF i > Len(context_results) THEN ""
    ELSE FormatResult(i, context_results[i])
         \o FormatResultsFrom(context_results, i + 1)

\* format_context
FormatContext(context_results) ==
    IF context_results = <<>> THEN ""
    ELSE "\n\n=== RELEVANT CONTEXT FROM YOUR KNOWLEDGE BASE ===\n"
         \o FormatResultsFrom(context_results, 1)
         \o "\n=== END CONTEXT ===\n"

Instruction ==
    "Use the following context from previous conversations to provide more accurate and informed responses:\n"

\* get_augmented_system_prompt gated on enabled, as augment_prompt is
GetAugmentedSystemPromptCall_Gated(is_enabled, original_system, context_results) ==
    IF ~is_enabled \/ context_results = <<>> THEN original_system
    ELSE original_system \o "\n\n" \o Instruction \o FormatContext(context_results)

\* get_augmented_system_prompt; is_enabled is self.enabled, which it does
\* not read
GetAugmentedSystemPromptCall(is_enabled, original_system, context_results) ==
    IF context_results = <<>> THEN original_system
    ELSE original_system \o "\n\n" \o Instruction \o FormatContext(context_results)

GetAugmentedSystemPrompt(original_system, context_results) ==
    /\ last' = [op |-> "get_augmented_system_prompt",
                original_system |-> original_system,
                context_results |-> context_results,
                ret |-> GetAugmentedSystemPromptCall(enabled, original_system,
                                                     context_results)]
    /\ UNCHANGED <<kbVars, indexVars, ragVars>>

\* generate_text_streaming, the retrieval step (app.py): the system prompt
\* the generation request is sent with, given the retrieve_context call it
\* makes when the engine is enabled; raised when that call raised.
GenerationSystemPrompt(is_enabled, system_prompt, call) ==
    IF ~is_enabled THEN [raised |-> FALSE, system_prompt |-> system_prompt]
    ELSE IF call.raised THEN [raised |-> TRUE, system_prompt |-> system_prompt]
    ELSE [raised |-> FALSE,
          system_prompt |->
              IF call.results # <<>>
              THEN GetAugmentedSystemPromptCall(is_enabled, system_prompt,
                                                call.results)
              ELSE system_prompt]

(***************************************************************************)
(* The RAG engine over an index: SpecRag                                   *)
(***************************************************************************)
\* The index the engine is bound to: empty, or one conversation indexed
RagIndexContents == {<<>>} \cup AfterIndexingOf(<<>>, {"c1"})

\* A result for a knowledge-base chunk, with the fields format_context reads
KBResult ==
    [type |-> "kb_document", doc_title |-> "Guide", collection |-> "docs",
     text |-> "Chunk text.", similarity_score |-> <<1, 1>>]

\* The result lists the current index can answer a search with
SearchableResults ==
    {SearchCall(entries, q, k, t).results :
        q \in EmbedTextOutcomes, k \in 0..MaxTopK, t \in Thresholds}

ContextResultInputs ==
    SearchableResults \cup {<<KBResult>> \o rs : rs \in SearchableResults}

\* app.py: EmbeddingIndex() may fail at start-up, and the engine is then
\* built with no index.
InitRagSpec ==
    /\ embedding_index \in BOOLEAN
    /\ entries \in (IF embedding_index THEN RagIndexContents ELSE {<<>>})
    /\ index_last_updated = NoTime
    /\ InitRag
    /\ InitKB
    /\ last = [op |-> "init"]

DoSetSimilarityThreshold ==
    \E threshold \in ThresholdInputs : SetSimilarityThreshold(threshold)

DoSetContextCount ==
    \E count \in ContextCountInputs : SetContextCount(count)

DoSetMaxContextTokens ==
    \E tokens \in ContextTokensInputs : SetMaxContextTokens(tokens)

DoRetrieveContext ==
    \E query_embedding \in EmbedTextOutcomes : RetrieveContext(query_embedding)

DoGetAugmentedSystemPrompt ==
    \E original_system \in SystemPrompts,
       context_results \in ContextResultInputs :
        GetAugmentedSystemPrompt(original_system, context_results)

NextRag ==
    \/ Enable
    \/ Disable
    \/ Toggle
    \/ DoSetSimilarityThreshold
    \/ DoSetContextCount
    \/ DoSetMaxContextTokens
    \/ DoRetrieveContext
    \/ DoGetAugmentedSystemPrompt

SpecRag == InitRagSpec /\ [][NextRag]_vars

\* What the last retrieve_context would have found with the gate open
Retrievable ==
    SearchCall(entries, last.query_embedding, context_count,
               similarity_threshold).results

\* C4: while the engine is Disabled retrieve_context returns ([], 0.0),
\* whatever the index holds, and calls neither the Embedding Provider nor
\* the search of the index.
C4_DisabledRetrievesNothing ==
    (last.op = "retrieve_context" /\ ~enabled) =>
        /\ last.call.results = <<>>
        /\ last.call.avg_similarity = ZeroAverage
        /\ ~last.call.raised
        /\ ~last.call.search_called
        /\ ~last.call.embed_called

\* A Disabled engine asked for context that its index would have matched
C4_Witness ==
    /\ last.op = "retrieve_context" /\ ~enabled
    /\ embedding_index
    /\ Retrievable # <<>>

\* C5: the engine starts Disabled; enable() returns whether an index is
\* bound and leaves the engine Enabled exactly in that case; whatever
\* enable, disable and toggle calls were made, Enabled implies an index is
\* bound.
C5_EnabledNeedsIndex ==
    /\ last.op = "init" => ~enabled
    /\ enabled => embedding_index
    /\ last.op = "enable" =>
          /\ last.ret = embedding_index
          /\ enabled = embedding_index

\* enable() was refused for want of an index
C5_Witness ==
    /\ last.op = "enable" /\ ~last.ret
    /\ ~embedding_index /\ ~enabled

\* C6 as stated: toggle() always flips the state, disable() always leaves
\* the engine Disabled.
C6_ToggleAlwaysFlips ==
    /\ last.op = "toggle" => enabled = ~last.was_enabled
    /\ last.op = "disable" => ~enabled

\* C6, amended: toggle() on an Enabled engine leaves it Disabled; on a
\* Disabled engine it leaves it Enabled if an index is bound and Disabled
\* otherwise; disable() always leaves the engine Disabled.
C6_ToggleFlipsIfIndexBound ==
    /\ last.op = "toggle" =>
          enabled = (~last.was_enabled /\ embedding_index)
    /\ last.op = "disable" => ~enabled

\* toggle() on a Disabled engine without an index
C6_Witness ==
    /\ last.op = "toggle" /\ ~last.was_enabled
    /\ ~embedding_index /\ ~enabled

\* The last retrieve_context ran on an Enabled engine and its query could
\* not be embedded, or the search of the index raised
RetrievalFailed ==
    /\ last.op = "retrieve_context"
    /\ enabled /\ embedding_index
    /\ \/ last.call.embed_called /\ last.query_embedding.failed
       \/ last.call.search_raised

\* C7: when the Embedding Provider fails on the query, or the search raises,
\* retrieve_context on an Enabled engine returns ([], 0.0) and raises
\* nothing, and generation goes on with the system prompt as it was.
C7_RetrievalFailureDegrades ==
    RetrievalFailed =>
        /\ last.call.results = <<>>
        /\ last.call.avg_similarity = ZeroAverage
        /\ ~last.call.raised
        /\ \A p \in SystemPrompts :
              GenerationSystemPrompt(enabled, p, last.call) =
                  [raised |-> FALSE, system_prompt |-> p]

\* The search raised inside retrieve_context, over an index that also holds
\* an entry the query matches
C7_Witness ==
    /\ RetrievalFailed
    /\ last.call.search_raised
    /\ \E i \in 1..Len(entries) :
          /\ ~SimilarityRaises(last.query_embedding.value, entries[i].embedding)
          /\ ClearsThreshold(CosineSimilarity(last.query_embedding.value,
                                              entries[i].embedding),
                             similarity_threshold)

\* s starts with prefix
StartsWith(s, prefix) ==
    Len(prefix) <= Len(s) /\ SubSeq(s, 1, Len(prefix)) = prefix

\* What follows the first n characters of s
After(s, n) == SubSeq(s, n + 1, Len(s))

\* C8: get_augmented_system_prompt returns the system prompt as it is for an
\* empty result list; otherwise the system prompt, a blank line, the
\* instruction sentence and format_context(results); Enabled or not.
C8_AugmentedPrompt ==
    last.op = "get_augmented_system_prompt" =>
        IF last.context_results = <<>>
        THEN last.ret = last.original_system
        ELSE /\ StartsWith(last.ret, last.original_system)
             /\ After(last.ret, Len(last.original_system)) =
                    "\n\n" \o Instruction \o FormatContext(last.context_results)

\* A Disabled engine augments a prompt with two results
C8_Witness ==
    /\ last.op = "get_augmented_system_prompt"
    /\ ~enabled
    /\ Len(last.context_results) = 2
    /\ last.original_system # ""
    /\ last.ret # last.original_system

(***************************************************************************)
(* Text helpers: Python str methods on strings                             *)
(***************************************************************************)
\* The character at position i (from 1)
Ch(s, i) == SubSeq(s, i, i)

\* str.isspace() of one character
IsSpace(c) == c \in {" ", "\n", "\t", "\r"}

\* s[i:] for 0 <= i
Drop(s, i) == SubSeq(s, i + 1, Len(s))

\* s[-n:]  (s[-0:] is s[0:], the whole string; a negative n gives s[|n|:])
LastChars(s, n) ==
    IF n = 0 THEN s
    ELSE IF n < 0 THEN Drop(s, Min(0 - n, Len(s)))
    ELSE Drop(s, Len(s) - Min(n, Len(s)))

\* The least element of a non-empty set of numbers
Least(S) == CHOOSE x \in S : \A y \in S : x <= y

\* The greatest element of a non-empty set of numbers
Greatest(S) == CHOOSE x \in S : \A y \in S : x >= y

\* The positions of s that hold no whitespace
Inked(s) == {i \in 1..Len(s) : ~IsSpace(Ch(s, i))}

\* str.strip()
Strip(s) ==
    IF Inked(s) = {} THEN "" ELSE SubSeq(s, Least(Inked(s)), Greatest(Inked(s)))

\* len(s.split()): the number of maximal runs of non-whitespace
WordCount(s) ==
    Cardinality({i \in Inked(s) : i = 1 \/ IsSpace(Ch(s, i - 1))})

\* The positions >= i where sep occurs in s
Occurrences(s, sep, i) ==
    {k \in i..(Len(s) - Len(sep) + 1) : SubSeq(s, k, k + Len(sep) - 1) = sep}

\* s.split(sep) for a non-empty separator, from position start on
RECURSIVE SplitFrom(_, _, _)
SplitFrom(s, sep, start) ==
    IF Occurrences(s, sep, start) = {} THEN <<SubSeq(s, start, Len(s))>>
    ELSE LET k == Least(Occurrences(s, sep, start))
         IN  <<SubSeq(s, start, k - 1)>> \o SplitFrom(s, sep, k + Len(sep))

Split(s, sep) == SplitFrom(s, sep, 1)

\* The first position >= i that holds no whitespace (Len(s) + 1 if none)
SkipSpace(s, i) ==
    IF {k \in Inked(s) : k >= i} = {} THEN Len(s) + 1
    ELSE Least({k \in Inked(s) : k >= i})

\* Where a run of whitespace begins right after a '.', '!' or '?', from
\* position i on
SentenceBreaks(s, i) ==
    {k \in i..Len(s) :
        k > 1 /\ Ch(s, k - 1) \in {".", "!", "?"} /\ IsSpace(Ch(s, k))}

\* re.split(r'(?<=[.!?])\s+', s), from position start on
RECURSIVE SentenceSplitFrom(_, _)
SentenceSplitFrom(s, start) ==
    IF SentenceBreaks(s, start) = {} THEN <<SubSeq(s, start, Len(s))>>
    ELSE LET k == Least(SentenceBreaks(s, start))
         IN  <<SubSeq(s, start, k - 1)>> \o SentenceSplitFrom(s, SkipSpace(s, k))

SentenceSplit(s) == SentenceSplitFrom(s, 1)

\* " ".join(parts)
RECURSIVE JoinSpace(_)
JoinSpace(parts) ==
    IF parts = <<>> THEN ""
    ELSE IF Len(parts) = 1 THEN parts[1]
    ELSE parts[1] \o " " \o JoinSpace(Tail(parts))

\* s.replace(old, new) for a one-character old
RECURSIVE ReplaceChar(_, _, _)
ReplaceChar(s, old, new) ==
    IF s = "" THEN ""
    ELSE (IF Ch(s, 1) = old THEN new ELSE Ch(s, 1))
         \o ReplaceChar(Drop(s, 1), old, new)

UpperLetters == "ABCDEFGHIJKLMNOPQRSTUVWXYZ"
LowerLetters == "abcdefghijklmnopqrstuvwxyz"

LowerChar(c) ==
    IF \E k \in 1..Len(UpperLetters) : Ch(UpperLetters, k) = c
    THEN Ch(LowerLetters, CHOOSE k \in 1..Len(UpperLetters) : Ch(UpperLetters, k) = c)
    ELSE c

\* str.lower()
RECURSIVE Lower(_)
Lower(s) == IF s = "" THEN "" ELSE LowerChar(Ch(s, 1)) \o Lower(Drop(s, 1))

\* seq[i:i + n] for 0 <= i, of a list or a string
Slice(seq, i, n) == SubSeq(seq, i + 1, Min(i + n, Len(seq)))

(***************************************************************************)
(* DocumentChunker (kb_manager.py)                                         *)
(***************************************************************************)
ParagraphChunkLimit == 1000
DefaultParagraphOverlap == 100
DefaultSentenceCount == 5
DefaultSentenceOverlap == 1
DefaultChunkSize == 500
DefaultSizeOverlap == 50

\* A chunk whose text is not trimmed
MakeChunk_Untrimmed(text) == [text |-> text, word_count |-> WordCount(text)]

\* {"text": text.strip(), "word_count": len(text.split())}
MakeChunk(text) == [text |-> Strip(text), word_count |-> WordCount(text)]

\* The loop of chunk_by_paragraphs from paragraph k on
RECURSIVE ParagraphLoop(_, _, _, _, _)
ParagraphLoop(paragraphs, k, current_chunk, chunks, overlap) ==
    IF k > Len(paragraphs)
    THEN IF Strip(current_chunk) # ""
         THEN Append(chunks, MakeChunk(current_chunk))
         ELSE chunks
    ELSE LET para == paragraphs[k]
         IN  IF Strip(para) = ""
             THEN ParagraphLoop(paragraphs, k + 1, current_chunk, chunks, overlap)
             ELSE IF current_chunk # ""
                     /\ Len(current_chunk) + Len(para) > ParagraphChunkLimit
             THEN ParagraphLoop(paragraphs, k + 1,
                                LastChars(current_chunk, overlap) \o "\n\n" \o para,
                                Append(chunks, MakeChunk(current_chunk)), overlap)
             ELSE ParagraphLoop(paragraphs, k + 1,
                                IF current_chunk # ""
                                THEN current_chunk \o "\n\n" \o para
                                ELSE para,
                                chunks, overlap)

ChunkByParagraphs(text, overlap) ==
    ParagraphLoop(Split(text, "\n\n"), 1, "", <<>>, overlap)

\* [s.strip() for s in sentences if s.strip()]
RECURSIVE StripNonEmpty(_)
StripNonEmpty(parts) ==
    IF parts = <<>> THEN <<>>
    ELSE (IF Strip(Head(parts)) # "" THEN <<Strip(Head(parts))>> ELSE <<>>)
         \o StripNonEmpty(Tail(parts))

\* for i in range(i, len(sentences), step), for a step >= 1
RECURSIVE SentenceLoop(_, _, _, _)
SentenceLoop(sentences, i, sentence_count, step) ==
    IF i >= Len(sentences) THEN <<>>
    ELSE LET chunk_text == JoinSpace(Slice(sentences, i, sentence_count))
         IN  (IF Slice(sentences, i, sentence_count) # <<>>
              THEN <<[text |-> chunk_text, word_count |-> WordCount(chunk_text)]>>
              ELSE <<>>)
             \o SentenceLoop(sentences, i + step, sentence_count, step)

\* chunk_by_sentences.  range() raises ValueError for a step of 0 and is
\* empty for a negative step.
ChunkBySentences(text, sentence_count, overlap) ==
    LET sentences == StripNonEmpty(SentenceSplit(text))
        step == sentence_count - overlap
    IN  IF step = 0 THEN [raised |-> TRUE, chunks |-> <<>>]
        ELSE IF step < 0 THEN [raised |-> FALSE, chunks |-> <<>>]
        ELSE [raised |-> FALSE,
              chunks |-> SentenceLoop(sentences, 0, sentence_count, step)]

\* for i in range(i, len(text), step), for a step >= 1
RECURSIVE SizeLoop(_, _, _, _)
SizeLoop(text, i, chunk_size, step) ==
    IF i >= Len(text) THEN <<>>
    ELSE (IF Strip(Slice(text, i, chunk_size)) # ""
          THEN <<MakeChunk(Slice(text, i, chunk_size))>>
          ELSE <<>>)
         \o SizeLoop(text, i + step, chunk_size, step)

\* chunk_by_size with windows that leave overlap characters out between them
ChunkBySize_Gapped(text, chunk_size, overlap) ==
    [raised |-> FALSE,
     chunks |-> SizeLoop(text, 0, chunk_size, chunk_size + overlap)]

\* chunk_by_size
ChunkBySize(text, chunk_size, overlap) ==
    LET step == chunk_size - overlap
    IN  IF step = 0 THEN [raised |-> TRUE, chunks |-> <<>>]
        ELSE IF step < 0 THEN [raised |-> FALSE, chunks |-> <<>>]
        ELSE [raised |-> FALSE, chunks |-> SizeLoop(text, 0, chunk_size, step)]

(***************************************************************************)
(* DocumentParser (kb_manager.py)                                          *)
(*                                                                         *)
(* SourceFiles is the part of the file system outside knowledge_base/: a   *)
(* path in its domain exists and holds the text it maps to.                *)
(***************************************************************************)
SourceFiles ==
    ("notes.txt" :> "One. Two.\n\nThree.") @@
    ("blank.txt" :> " \n ") @@
    ("empty.txt" :> "") @@
    ("readme.md" :> "# Hi") @@
    ("marks.md" :> "#*_") @@
    ("data.bin" :> "x") @@
    ("paper.pdf" :> "%PDF")

\* What pdfplumber extracts from the one page of paper.pdf, a scan
PdfPageText == ""

\* The final component of a path
BaseName(filepath) ==
    IF Occurrences(filepath, "/", 1) = {} THEN filepath
    ELSE Drop(filepath, Greatest(Occurrences(filepath, "/", 1)))

\* Where the suffix of a file name starts: its last dot, unless that dot
\* leads or ends the name (0: no suffix)
SuffixStart(name) ==
    LET dots == Occurrences(name, ".", 1)
    IN  IF dots = {} \/ Greatest(dots) = 1 \/ Greatest(dots) = Len(name)
        THEN 0
        ELSE Greatest(dots)

\* Path(filepath).suffix
Suffix(filepath) ==
    LET name == BaseName(filepath)
    IN  IF SuffixStart(name) = 0 THEN ""
        ELSE SubSeq(name, SuffixStart(name), Len(name))

\* Path(filepath).stem
Stem(filepath) ==
    LET name == BaseName(filepath)
    IN  IF SuffixStart(name) = 0 THEN name
        ELSE SubSeq(name, 1, SuffixStart(name) - 1)

\* re.sub(r'[#*_\[\]()]', '', content)
RECURSIVE RemoveMarkdown(_)
RemoveMarkdown(content) ==
    IF content = "" THEN ""
    ELSE (IF Ch(content, 1) \in {"#", "*", "_", "[", "]", "(", ")"}
          THEN ""
          ELSE Ch(content, 1))
         \o RemoveMarkdown(Drop(content, 1))

\* parse_text_file: the text, or "" when the file cannot be read
ParseTextFile(filepath) ==
    IF filepath \in DOMAIN SourceFiles THEN SourceFiles[filepath] ELSE ""

\* parse_markdown_file
ParseMarkdownFile(filepath) ==
    IF filepath \in DOMAIN SourceFiles
    THEN RemoveMarkdown(SourceFiles[filepath])
    ELSE ""

\* parse_pdf_file: the pages' text, each followed by a newline, or "" when
\* pdfplumber is not installed or fails on the file
ParsePdfFileOutcomes(filepath) ==
    IF filepath \in DOMAIN SourceFiles THEN {"", PdfPageText \o "\n"} ELSE {""}

\* parse_file: what it may return for a path
ParseFileOutcomes(filepath) ==
    LET ext == Lower(Suffix(filepath))
    IN  IF ext = ".txt" THEN {ParseTextFile(filepath)}
        ELSE IF ext = ".md" THEN {ParseMarkdownFile(filepath)}
        ELSE IF ext = ".pdf" THEN ParsePdfFileOutcomes(filepath)
        ELSE {""}

(***************************************************************************)
(* KnowledgeBase (kb_manager.py)                                           *)
(*                                                                         *)
(* collection_files and document_files map the name of each file that      *)
(* exists in its directory to the JSON value it holds.  Times are whole    *)
(* seconds of the clock; the calls of SpecKB happen within one second.     *)
(***************************************************************************)
MaxCollections == 2
MaxDocuments == 2

CollectionNames == {"my docs", "my_docs", "My docs", "a/b"}
Descriptions == {"about"}

\* The calls of add_document: a path, a collection name, a title and a
\* chunking strategy.  notes.txt goes to every collection name; the other
\* files, which exercise the parsers and the chunkers, go to one.
AddDocumentInputs ==
    {<<"notes.txt", collection_name, "", "paragraphs">> :
        collection_name \in CollectionNames}
    \cup
    {<<"notes.txt", "my_docs", "Guide", "sentences">>,
     <<"readme.md", "My docs", "", "size">>,
     <<"paper.pdf", "my docs", "", "words">>,
     <<"blank.txt", "my docs", "", "paragraphs">>,
     <<"blank.txt", "my docs", "", "sentences">>,
     <<"blank.txt", "my docs", "", "size">>,
     <<"empty.txt", "my docs", "", "paragraphs">>,
     <<"marks.md", "my docs", "", "paragraphs">>,
     <<"data.bin", "my docs", "", "paragraphs">>,
     <<"missing.txt", "my docs", "", "paragraphs">>,
     <<"missing.txt", "a/b", "", "paragraphs">>}

\* The paths, strategies and parsed texts of these calls.  The tables below
\* hold the values of the pure functions on them.
FilePaths == {input[1] : input \in AddDocumentInputs}
ChunkingStrategies == {input[4] : input \in AddDocumentInputs}
ParseFileTable == [filepath \in FilePaths |-> ParseFileOutcomes(filepath)]
ParsedContents == UNION {ParseFileTable[filepath] : filepath \in FilePaths}

\* collection_name.replace(' ', '_').lower()
SafeNameTable ==
    [collection_name \in CollectionNames |->
        Lower(ReplaceChar(collection_name, " ", "_"))]

\* _get_collection_file: the file's name in knowledge_base/collections
CollectionFileName(collection_name) == SafeNameTable[collection_name] \o ".json"

\* _get_document_file: the file's name in knowledge_base/documents
DocumentFileName(doc_id) == doc_id \o ".json"

\* open(filepath, 'w') in a directory _ensure_directories made: it raises
\* when the name leads into a subdirectory, which does not exist
Writable(file_name) == Occurrences(file_name, "/", 1) = {}

\* _save_collection_file and _save_document_file: write the file, or print
\* the error and go on
SaveFile(files, file_name, content) ==
    IF Writable(file_name) THEN (file_name :> content) @@ files ELSE files

SaveCollectionFile(files, collection) ==
    SaveFile(files, CollectionFileName(collection.name), collection)

SaveDocumentFile(files, document) ==
    SaveFile(files, DocumentFileName(document.id), document)

\* _load_index
LoadIndex(index_file) ==
    IF index_file = <<>> THEN EmptyKBIndex ELSE index_file[1]

\* any(c == collection_name for c in self.index['collections'])
CollectionRegistered(index, collection_name) ==
    \E i \in 1..Len(index.collections) : index.collections[i] = collection_name

\* create_collection at time t: its return value, the index, the index
\* file and the collection files after it
CreateCollectionCall(index, index_file, files, collection_name, description, t) ==
    IF CollectionRegistered(index, collection_name)
    THEN [ret |-> FALSE, index |-> index, index_file |-> index_file,
          collection_files |-> files]
    ELSE LET collection == [name |-> collection_name,
                            description |-> description,
                            document_count |-> 0,
                            created_at |-> t,
                            documents |-> <<>>]
             new_index == [index EXCEPT !.collections = Append(@, collection_name),
                                        !.last_updated = t]
         IN  [ret |-> TRUE, index |-> new_index, index_file |-> <<new_index>>,
              collection_files |-> SaveCollectionFile(files, collection)]

\* What the call may change, as it was before the call
KBBefore ==
    [kb_index |-> kb_index, kb_index_file |-> kb_index_file,
     collection_files |-> collection_files, document_files |-> document_files]

CreateCollection(collection_name, description) ==
    LET call == CreateCollectionCall(kb_index, kb_index_file, collection_files,
                                     collection_name, description, now)
    IN  /\ Len(call.index.collections) <= MaxCollections
        /\ kb_index' = call.index
        /\ kb_index_file' = call.index_file
        /\ collection_files' = call.collection_files
        /\ last' = [op |-> "create_collection",
                    collection_name |-> collection_name,
                    description |-> description,
                    ret |-> call.ret,
                    before |-> KBBefore]
        /\ UNCHANGED <<indexVars, ragVars, document_files, now>>

\* collection_name not in self.index['collections'], negated
CollectionFound_Always(index, collection_name) == TRUE

CollectionFound(index, collection_name) ==
    collection_name \in Range(index.collections)

\* The chunker add_document picks for a strategy, with its defaults
ChunksFor(chunking_strategy, content) ==
    IF chunking_strategy = "paragraphs"
    THEN [raised |-> FALSE,
          chunks |-> ChunkByParagraphs(content, DefaultParagraphOverlap)]
    ELSE IF chunking_strategy = "sentences"
    THEN ChunkBySentences(content, DefaultSentenceCount, DefaultSentenceOverlap)
    ELSE IF chunking_strategy = "size"
    THEN ChunkBySize(content, DefaultChunkSize, DefaultSizeOverlap)
    ELSE [raised |-> FALSE,
          chunks |-> ChunkByParagraphs(content, DefaultParagraphOverlap)]

ChunksTable ==
    [chunking_strategy \in ChunkingStrategies, content \in ParsedContents |->
        ChunksFor(chunking_strategy, content)]

\* sum(c['word_count'] for c in chunks)
RECURSIVE TotalWords(_)
TotalWords(chunks) ==
    IF chunks = <<>> THEN 0 ELSE Head(chunks).word_count + TotalWords(Tail(chunks))

\* A document id from the second alone
DocId_NoCount(index, collection_name, t) ==
    "doc_" \o ReplaceChar(collection_name, " ", "_") \o "_" \o ToString(t)

\* f"doc_{collection_name.replace(' ', '_')}_{len(index['documents'])}_{int(timestamp)}"
DocId(index, collection_name, t) ==
    "doc_" \o ReplaceChar(collection_name, " ", "_") \o "_"
           \o ToString(Len(index.documents)) \o "_" \o ToString(t)

\* The collection file add_document rewrites after it stored a document:
\* the file of collection_name, if there is one, with doc_id appended
UpdateCollection(files, collection_name, doc_id) ==
    IF CollectionFileName(collection_name) \in DOMAIN files
    THEN LET collection == files[CollectionFileName(collection_name)]
             documents == Append(collection.documents, doc_id)
         IN  SaveCollectionFile(files,
                 [collection EXCEPT !.documents = documents,
                                    !.document_count = Len(documents)])
    ELSE files

\* A new document, marked as indexed already
IndexedWhenAdded_True == TRUE

\* "indexed": False, the flag of a new document
IndexedWhenAdded == FALSE

\* add_document leaving everything as it is
AddDocumentFails(outcome, index, index_file, cfiles, dfiles) ==
    [raised |-> outcome = "raised", ret |-> FALSE, outcome |-> outcome,
     index |-> index, index_file |-> index_file,
     collection_files |-> cfiles, document_files |-> dfiles]

\* add_document at time t, where parse_file returns content
AddDocumentCall(index, index_file, cfiles, dfiles, filepath, collection_name, doc_title, chunking_strategy, content, t) ==
    IF filepath \notin DOMAIN SourceFiles
    THEN AddDocumentFails("file_not_found", index, index_file, cfiles, dfiles)
    ELSE IF ~CollectionFound(index, collection_name)
    THEN AddDocumentFails("collection_not_found", index, index_file, cfiles, dfiles)
    ELSE IF content = ""
    THEN AddDocumentFails("parse_empty", index, index_file, cfiles, dfiles)
    ELSE IF ChunksTable[chunking_strategy, content].raised
    THEN AddDocumentFails("raised", index, index_file, cfiles, dfiles)
    ELSE IF ChunksTable[chunking_strategy, content].chunks = <<>>
    THEN AddDocumentFails("no_chunks", index, index_file, cfiles, dfiles)
    ELSE LET chunks == ChunksTable[chunking_strategy, content].chunks
             doc_id == DocId(index, collection_name, t)
             document == [id |-> doc_id,
                          title |-> IF doc_title # "" THEN doc_title
                                    ELSE Stem(filepath),
                          filepath |-> filepath,
                          collection |-> collection_name,
                          chunks |-> chunks,
                          chunk_count |-> Len(chunks),
                          total_words |-> TotalWords(chunks),
                          added_at |-> t,
                          indexed |-> IndexedWhenAdded]
             new_index == [index EXCEPT !.documents = Append(@, doc_id),
                                        !.last_updated = t]
         IN  [raised |-> FALSE, ret |-> TRUE, outcome |-> "added",
              index |-> new_index, index_file |-> <<new_index>>,
              collection_files |-> UpdateCollection(cfiles, collection_name, doc_id),
              document_files |-> SaveDocumentFile(dfiles, document)]

AddDocument(filepath, collection_name, doc_title, chunking_strategy, content) ==
    LET call == AddDocumentCall(kb_index, kb_index_file, collection_files,
                                document_files, filepath, collection_name,
                                doc_title, chunking_strategy, content, now)
    IN  /\ Len(call.index.documents) <= MaxDocuments
        /\ kb_index' = call.index
        /\ kb_index_file' = call.index_file
        /\ collection_files' = call.collection_files
        /\ document_files' = call.document_files
        /\ last' = [op |-> "add_document",
                    filepath |-> filepath,
                    collection_name |-> collection_name,
                    doc_title |-> doc_title,
                    chunking_strategy |-> chunking_strategy,
                    content |-> content,
                    raised |-> call.raised,
                    ret |-> call.ret,
                    outcome |-> call.outcome,
                    before |-> KBBefore]
        /\ UNCHANGED <<indexVars, ragVars, now>>

\* A new process: KnowledgeBase.__init__ loads the index from its file
OpenKnowledgeBase ==
    /\ kb_index' = LoadIndex(kb_index_file)
    /\ last' = [op |-> "open_knowledge_base", before |-> KBBefore]
    /\ UNCHANGED <<indexVars, ragVars, kb_index_file, collection_files,
                   document_files, now>>

\* list_collections: the collection files of the registered names, in order
RECURSIVE ListCollectionsFrom(_, _, _)
ListCollectionsFrom(index, cfiles, k) ==
    IF k > Len(index.collections) THEN <<>>
    ELSE (IF CollectionFileName(index.collections[k]) \in DOMAIN cfiles
          THEN <<cfiles[CollectionFileName(index.collections[k])]>>
          ELSE <<>>)
         \o ListCollectionsFrom(index, cfiles, k + 1)

ListCollections(index, cfiles) == ListCollectionsFrom(index, cfiles, 1)

\* list_documents: the document files of the ids in the index, in order;
\* only_collection is <<>> for None and <<name>> for a collection name
RECURSIVE ListDocumentsFrom(_, _, _, _)
ListDocumentsFrom(index, dfiles, only_collection, k) ==
    IF k > Len(index.documents) THEN <<>>
    ELSE (IF /\ DocumentFileName(index.documents[k]) \in DOMAIN dfiles
             /\ \/ only_collection = <<>>
                \/ dfiles[DocumentFileName(index.documents[k])].collection
                       = only_collection[1]
          THEN <<dfiles[DocumentFileName(index.documents[k])]>>
          ELSE <<>>)
         \o ListDocumentsFrom(index, dfiles, only_collection, k + 1)

ListDocuments(index, dfiles, only_collection) ==
    ListDocumentsFrom(index, dfiles, only_collection, 1)

\* sum(d['chunk_count'] for d in documents)
RECURSIVE TotalChunks(_)
TotalChunks(documents) ==
    IF documents = <<>> THEN 0
    ELSE Head(documents).chunk_count + TotalChunks(Tail(documents))

\* sum(d['total_words'] for d in documents)
RECURSIVE TotalDocumentWords(_)
TotalDocumentWords(documents) ==
    IF documents = <<>> THEN 0
    ELSE Head(documents).total_words + TotalDocumentWords(Tail(documents))

\* sum(1 for d in documents if d.get('indexed', False))
IndexedCount(documents) ==
    Cardinality({k \in 1..Len(documents) : documents[k].indexed})

\* get_stats
GetStatsCall(index, cfiles, dfiles) ==
    LET documents == ListDocuments(index, dfiles, <<>>)
    IN  [collection_count |-> Len(ListCollections(index, cfiles)),
         document_count |-> Len(documents),
         total_chunks |-> TotalChunks(documents),
         total_words |-> TotalDocumentWords(documents),
         indexed_documents |-> IndexedCount(documents),
         last_updated |-> index.last_updated]

\* get_collection_stats; found is FALSE for the empty dict
GetCollectionStatsCall(index, cfiles, dfiles, collection_name) ==
    IF CollectionFileName(collection_name) \notin DOMAIN cfiles
    THEN [found |-> FALSE]
    ELSE LET collection == cfiles[CollectionFileName(collection_name)]
             collection_docs == ListDocuments(index, dfiles, <<collection_name>>)
         IN  [found |-> TRUE,
              name |-> collection_name,
              description |-> collection.description,
              document_count |-> Len(collection_docs),
              total_chunks |-> TotalChunks(collection_docs),
              total_words |-> TotalDocumentWords(collection_docs),
              indexed_documents |-> IndexedCount(collection_docs),
              created_at |-> collection.created_at]

GetStats ==
    /\ last' = [op |-> "get_stats",
                ret |-> GetStatsCall(kb_index, collection_files, document_files)]
    /\ UNCHANGED <<indexVars, ragVars, kbVars>>

GetCollectionStats(collection_name) ==
    /\ last' = [op |-> "get_collection_stats",
                collection_name |-> collection_name,
                ret |-> GetCollectionStatsCall(kb_index, collection_files,
                                               document_files, collection_name)]
    /\ UNCHANGED <<indexVars, ragVars, kbVars>>

DoGetCollectionStats ==
    \E collection_name \in CollectionNames : GetCollectionStats(collection_name)

DoCreateCollection ==
    \E collection_name \in CollectionNames, description \in Descriptions :
        CreateCollection(collection_name, description)

DoAddDocument ==
    \E input \in AddDocumentInputs :
        \E content \in ParseFileTable[input[1]] :
            AddDocument(input[1], input[2], input[3], input[4], content)

NextKB ==
    \/ DoCreateCollection
    \/ DoAddDocument
    \/ OpenKnowledgeBase
    \/ GetStats
    \/ DoGetCollectionStats

SpecKB == Init /\ [][NextKB]_vars

(***************************************************************************)
(* Claims about create_collection and add_document                         *)
(***************************************************************************)
\* Did the call leave the index, its file and all collection files alone?
CollectionsUntouched ==
    /\ kb_index = last.before.kb_index
    /\ kb_index_file = last.before.kb_index_file
    /\ collection_files = last.before.collection_files

\* C9: create_collection(name) fails exactly when name is registered already
\* (compared exactly, letter case included), and then leaves the index and
\* every collection file as they were; otherwise the collection's file
\* holds an empty collection of that name (document count 0, no documents)
\* and name is appended to the registered names, where it occurs once.
C9_CreateCollection ==
    last.op = "create_collection" =>
        LET name == last.collection_name
            registered == name \in Range(last.before.kb_index.collections)
        IN  /\ (~last.ret) <=> registered
            /\ registered => CollectionsUntouched
            /\ ~registered =>
                /\ CollectionFileName(name) \in DOMAIN collection_files
                /\ collection_files[CollectionFileName(name)].name = name
                /\ collection_files[CollectionFileName(name)].document_count = 0
                /\ collection_files[CollectionFileName(name)].documents = <<>>
                /\ kb_index.collections =
                       Append(last.before.kb_index.collections, name)
                /\ Cardinality({i \in 1..Len(kb_index.collections) :
                                   kb_index.collections[i] = name}) = 1
                /\ kb_index_file = <<kb_index>>

\* The part of C9 that the code keeps: the same, but a name whose file
\* cannot be written is registered without a collection file
C9_CreateCollectionIfWritable ==
    last.op = "create_collection" =>
        LET name == last.collection_name
            registered == name \in Range(last.before.kb_index.collections)
        IN  /\ (~last.ret) <=> registered
            /\ registered => CollectionsUntouched
            /\ ~registered =>
                /\ kb_index.collections =
                       Append(last.before.kb_index.collections, name)
                /\ kb_index_file = <<kb_index>>
                /\ IF Writable(CollectionFileName(name))
                   THEN /\ CollectionFileName(name) \in DOMAIN collection_files
                        /\ collection_files[CollectionFileName(name)] =
                               [name |-> name,
                                description |-> last.description,
                                document_count |-> 0,
                                created_at |-> now,
                                documents |-> <<>>]
                   ELSE collection_files = last.before.collection_files

\* The reasons for which add_document is to fail, from its inputs
MustFail ==
    \/ last.filepath \notin DOMAIN SourceFiles
    \/ last.collection_name \notin Range(last.before.kb_index.collections)
    \/ last.content = ""
    \/ ChunksTable[last.chunking_strategy, last.content].chunks = <<>>

\* C10: add_document returns False when the file does not exist, the
\* collection is not registered, the parsed text is empty or the chunker
\* yields no chunk; a failed call leaves the index, its file, every
\* document file and every collection file as they were; and every stored
\* document names a registered collection.
C10_AddDocumentFailures ==
    /\ last.op = "add_document" =>
          /\ MustFail => ~last.ret
          /\ ~last.ret =>
                /\ CollectionsUntouched
                /\ document_files = last.before.document_files
    /\ \A f \in DOMAIN document_files :
          document_files[f].collection \in Range(kb_index.collections)
    /\ \A f \in DOMAIN collection_files :
          collection_files[f].documents # <<>> =>
              collection_files[f].name \in Range(kb_index.collections)

\* A file that parses to blank text is refused, for want of chunks, by a
\* knowledge base that holds a document already
C10_Witness ==
    /\ last.op = "add_document"
    /\ last.outcome = "no_chunks"
    /\ ~last.ret
    /\ DOMAIN document_files # {}
    /\ \E f \in DOMAIN collection_files : collection_files[f].document_count > 0

(***************************************************************************)
(* The knowledge base with a clock that advances                           *)
(***************************************************************************)
MaxClock == 1

\* Two names with the same underscored form, which doc ids are built from
ClockedNames == {"my docs", "my_docs"}

\* A second passes
Tick ==
    /\ now < MaxClock
    /\ now' = now + 1
    /\ UNCHANGED <<indexVars, ragVars, kb_index, kb_index_file,
                   collection_files, document_files, last>>

DoCreateClockedCollection ==
    \E collection_name \in ClockedNames, description \in Descriptions :
        CreateCollection(collection_name, description)

DoAddClockedDocument ==
    \E collection_name \in ClockedNames :
        AddDocument("notes.txt", collection_name, "", "paragraphs",
                    ParseTextFile("notes.txt"))

NextKBClock ==
    \/ DoCreateClockedCollection
    \/ DoAddClockedDocument
    \/ OpenKnowledgeBase
    \/ Tick

SpecKBClock == Init /\ [][NextKBClock]_vars

\* C11: the ids in the document index are pairwise distinct; a successful
\* add_document appends an id that the index did not hold and writes a
\* document file that did not exist, so it leaves every earlier document
\* file as it was - also for calls within one second of the clock and for
\* collection names with the same underscored form.
C11_DocumentIdsUnique ==
    /\ \A i, j \in 1..Len(kb_index.documents) :
          i # j => kb_index.documents[i] # kb_index.documents[j]
    /\ (last.op = "add_document" /\ last.ret) =>
          LET doc_id == kb_index.documents[Len(kb_index.documents)]
          IN  /\ doc_id \notin Range(last.before.kb_index.documents)
              /\ DocumentFileName(doc_id) \notin DOMAIN last.before.document_files
              /\ \A f \in DOMAIN last.before.document_files :
                    document_files[f] = last.before.document_files[f]

\* Two documents were added within one second, to names with the same
\* underscored form
C11_Witness ==
    /\ last.op = "add_document"
    /\ last.ret
    /\ \E f, g \in DOMAIN document_files :
          /\ f # g
          /\ document_files[f].added_at = document_files[g].added_at
          /\ document_files[f].collection = "my docs"
          /\ document_files[g].collection = "my_docs"

\* The stored documents whose collection field is collection_name
DocumentsOf(collection_name) ==
    {f \in DOMAIN document_files :
        document_files[f].collection = collection_name}

\* C12: for every registered collection that has a collection file, the
\* stored document_count is the length of the stored document list and
\* the number of stored documents whose collection field is its name.
C12_DocumentCountInSync ==
    \A collection_name \in Range(kb_index.collections) :
        CollectionFileName(collection_name) \in DOMAIN collection_files =>
            LET collection == collection_files[CollectionFileName(collection_name)]
            IN  /\ collection.document_count = Len(collection.documents)
                /\ collection.document_count =
                       Cardinality(DocumentsOf(collection_name))

\* C13: every stored document has indexed = FALSE, and get_stats and
\* get_collection_stats report 0 indexed documents, after any calls of the
\* knowledge base.
C13_IndexedStaysFalse ==
    /\ \A f \in DOMAIN document_files : ~document_files[f].indexed
    /\ last.op = "get_stats" => last.ret.indexed_documents = 0
    /\ (last.op = "get_collection_stats" /\ last.ret.found) =>
          last.ret.indexed_documents = 0

\* get_collection_stats on a collection that holds a document
C13_Witness ==
    /\ last.op = "get_collection_stats"
    /\ last.ret.found
    /\ last.ret.document_count > 0
    /\ last.ret.indexed_documents = 0

(***************************************************************************)
(* The chunkers on their own: a behaviour starts with a text and calls one *)
(* of the three static methods of DocumentChunker on it.                   *)
(***************************************************************************)
MaxTextLen == 4

TextAlphabet == {"a", ".", " ", "\n"}

RECURSIVE StringsOfLen(_)
StringsOfLen(n) ==
    IF n = 0 THEN {""}
    ELSE {s \o c : s \in StringsOfLen(n - 1), c \in TextAlphabet}

\* Every text of at most MaxTextLen characters
ShortTexts == UNION {StringsOfLen(n) : n \in 0..MaxTextLen}

\* s repeated n times
RECURSIVE Repeat(_, _)
Repeat(s, n) ==
    IF n = 0 THEN ""
    ELSE IF n % 2 = 0 THEN Repeat(s \o s, n \div 2)
    ELSE s \o Repeat(s \o s, n \div 2)

\* Texts whose paragraphs do not fit one chunk of ParagraphChunkLimit
\* characters
LongTexts ==
    {Repeat("a", 600) \o "\n\n" \o Repeat("b", 600),
     Repeat("a b ", 150) \o "\n\n" \o Repeat("c", 500),
     Repeat("x", 400) \o "\n\n" \o Repeat("y", 400) \o "\n\n" \o Repeat("z", 400),
     Repeat("a", 1200) \o "\n\n" \o " " \o "\n\n" \o "b.",
     Repeat("a", 999) \o "\n\n" \o "b"}

ParagraphOverlaps == {0, 1, 3, 100, 2000}
SentenceCounts == {1, 2}
SentenceOverlaps == {0, 1, 2}
ChunkSizes == {1, 2, 3}
SizeOverlaps == {0, 1, 2, 3}

InitChunk ==
    /\ entries = <<>>
    /\ index_last_updated = NoTime
    /\ embedding_index = TRUE
    /\ InitRag
    /\ InitKB
    /\ last \in {[op |-> "text", text |-> text] : text \in ShortTexts \cup LongTexts}

DoChunkByParagraphs ==
    \E overlap \in ParagraphOverlaps :
        /\ last.op = "text"
        /\ last' = [op |-> "chunk_by_paragraphs",
                    text |-> last.text,
                    overlap |-> overlap,
                    raised |-> FALSE,
                    chunks |-> ChunkByParagraphs(last.text, overlap)]
        /\ UNCHANGED <<indexVars, ragVars, kbVars>>

DoChunkBySentences ==
    \E sentence_count \in SentenceCounts, overlap \in SentenceOverlaps :
        /\ last.op = "text"
        /\ last.text \in ShortTexts
        /\ last' = [op |-> "chunk_by_sentences",
                    text |-> last.text,
                    sentence_count |-> sentence_count,
                    overlap |-> overlap,
                    raised |-> ChunkBySentences(last.text, sentence_count,
                                                overlap).raised,
                    chunks |-> ChunkBySentences(last.text, sentence_count,
                                                overlap).chunks]
        /\ UNCHANGED <<indexVars, ragVars, kbVars>>

DoChunkBySize ==
    \E chunk_size \in ChunkSizes, overlap \in SizeOverlaps :
        /\ last.op = "text"
        /\ last.text \in ShortTexts
        /\ last' = [op |-> "chunk_by_size",
                    text |-> last.text,
                    chunk_size |-> chunk_size,
                    overlap |-> overlap,
                    raised |-> ChunkBySize(last.text, chunk_size, overlap).raised,
                    chunks |-> ChunkBySize(last.text, chunk_size, overlap).chunks]
        /\ UNCHANGED <<indexVars, ragVars, kbVars>>

NextChunk ==
    \/ DoChunkByParagraphs
    \/ DoChunkBySentences
    \/ DoChunkBySize

SpecChunk == InitChunk /\ [][NextChunk]_vars

\* Was the last call a call of a chunker that returned?
ChunkerReturned ==
    /\ last.op \in {"chunk_by_paragraphs", "chunk_by_sentences", "chunk_by_size"}
    /\ ~last.raised

\* C14: every chunk a chunker returns has a text that is not empty, that
\* is trimmed, and whose number of whitespace-delimited tokens is the
\* chunk's word_count, which is at least 1.
C14_ChunksTrimmedAndCounted ==
    ChunkerReturned =>
        \A k \in 1..Len(last.chunks) :
            /\ last.chunks[k].text # ""
            /\ Strip(last.chunks[k].text) = last.chunks[k].text
            /\ last.chunks[k].word_count = WordCount(last.chunks[k].text)
            /\ last.chunks[k].word_count >= 1

\* chunk_by_size trimmed one window and dropped a blank one
C14_Witness ==
    /\ last.op = "chunk_by_size"
    /\ last.text = "a \n"
    /\ last.chunk_size = 2
    /\ last.overlap = 0
    /\ last.chunks = <<[text |-> "a", word_count |-> 1]>>

\* The window advance of the last call of chunk_by_sentences or chunk_by_size
Advance ==
    IF last.op = "chunk_by_sentences"
    THEN last.sentence_count - last.overlap
    ELSE last.chunk_size - last.overlap

\* C15: chunk_by_sentences and chunk_by_size return for every advance of 1
\* or more; with an advance below 1 the call is refused with an error, or
\* it still returns chunks for a text that is not blank.
C15_AdvanceBelowOneHandled ==
    last.op \in {"chunk_by_sentences", "chunk_by_size"} =>
        /\ Advance >= 1 => ~last.raised
        /\ Advance < 1 =>
              \/ last.raised
              \/ Strip(last.text) # "" => last.chunks # <<>>

\* The last n characters of s, none of them for n = 0
TrailingChars(s, n) == SubSeq(s, Len(s) - Min(n, Len(s)) + 1, Len(s))

\* C16: when chunk_by_paragraphs closes a chunk because the next paragraph
\* brings it over 1000 characters, the next chunk is the last overlap
\* characters of the closed chunk (none of them for overlap = 0), a blank
\* line and the new paragraph; text that is not blank always gives a last
\* chunk.
C16_ParagraphOverlapSeed ==
    last.op = "chunk_by_paragraphs" =>
        LET paragraphs == Split(last.text, "\n\n")
        IN  /\ Strip(last.text) # "" => last.chunks # <<>>
            /\ ( /\ Len(paragraphs) = 2
                 /\ Strip(paragraphs[1]) # ""
                 /\ Strip(paragraphs[2]) # ""
                 /\ Len(paragraphs[1]) + Len(paragraphs[2]) > ParagraphChunkLimit )
               => last.chunks =
                    << MakeChunk(paragraphs[1]),
                       MakeChunk(TrailingChars(paragraphs[1], last.overlap)
                                 \o "\n\n" \o paragraphs[2]) >>

\* The same with overlap = 0 left out
C16_PositiveOverlapSeed ==
    (last.op = "chunk_by_paragraphs" /\ last.overlap = 0) \/ C16_ParagraphOverlapSeed

\* The entries whose stored vector has the length of the query vector
WellFormedFor(es, q) == SelectSeq(es, LAMBDA e : Len(e.embedding) = Len(q))

\* C17: a search whose query was embedded never aborts; it skips the entries
\* whose stored vector has another length than the query vector and returns
\* the best matches among the others.
C17_MismatchedEntriesSkipped ==
    (last.op = "search" /\ entries # <<>> /\ ~last.query_embedding.failed) =>
        /\ ~last.raised
        /\ last.results =
              Take(SortDesc(ScoreAndFilter(
                       WellFormedFor(entries, last.query_embedding.value),
                       last.query_embedding.value, last.similarity_threshold)),
                   last.top_k)

\* The same for the searches over entries that all have the query's length
C17_WellFormedIndexSearched ==
    (\E i \in 1..Len(entries) : last.op = "search" /\ ~last.query_embedding.failed
                                /\ Len(entries[i].embedding) # Len(last.query_embedding.value))
    \/ C17_MismatchedEntriesSkipped

\* index_conversation_embeddings: "Conversation indexed successfully!" is
\* printed unless index_conversation raised, and index_conversation returns
\* None by each of its three ways out.
ReportsSuccess(outcome) == outcome \in {"no_pairs", "embed_failed", "indexed"}

\* Every pair of the last index_conversation call has its entry in the index
AllPairsIndexed ==
    \A k \in 1..Len(last.pair_metadata) :
        \E i \in 1..Len(entries) :
            /\ entries[i].pair_id = last.pair_metadata[k].pair_id
            /\ ~last.embeddings.failed
            /\ k <= Len(last.embeddings.value)
            /\ entries[i].embedding = last.embeddings.value[k]

\* C18: when the embedding service fails during index_conversation, or
\* answers with fewer vectors than pairs, the caller is not told that the
\* conversation was indexed: success is reported only when every pair of the
\* conversation is in the index.
C18_IndexingFailureSurfaced ==
    (last.op = "index_conversation" /\ ReportsSuccess(last.outcome)) =>
        AllPairsIndexed

\* The same for the calls the service answered with one vector for each pair
C18_FullAnswerIndexed ==
    (/\ last.op = "index_conversation"
     /\ ReportsSuccess(last.outcome)
     /\ ~last.embeddings.failed
     /\ Len(last.embeddings.value) = Len(last.pair_metadata)) =>
        AllPairsIndexed

(***************************************************************************)
(* The Document Store with crashes between file writes: SpecKBCrash        *)
(***************************************************************************)
\* create_collection writes the collection file, then the index file;
\* add_document writes the document file, the index file, the collection file
CreateCollectionWrites == 2
AddDocumentWrites == 3

\* create_collection on a new name, the process ending after the first
\* `writes` of its file writes, and a new process loading the index
CrashInCreateCollection(collection_name, description, writes) ==
    LET call == CreateCollectionCall(kb_index, kb_index_file, collection_files,
                                     collection_name, description, now)
    IN  /\ call.ret
        /\ Len(call.index.collections) <= MaxCollections
        /\ collection_files' = IF writes >= 1 THEN call.collection_files
                               ELSE collection_files
        /\ kb_index_file' = IF writes >= 2 THEN call.index_file ELSE kb_index_file
        /\ kb_index' = LoadIndex(kb_index_file')
        /\ last' = [op |-> "create_collection_crash",
                    collection_name |-> collection_name,
                    writes |-> writes,
                    before |-> KBBefore]
        /\ UNCHANGED <<indexVars, ragVars, document_files, now>>

\* add_document getting as far as its file writes, the process ending after
\* the first `writes` of them, and a new process loading the index
CrashInAddDocument(filepath, collection_name, doc_title, chunking_strategy, content, writes) ==
    LET call == AddDocumentCall(kb_index, kb_index_file, collection_files,
                                document_files, filepath, collection_name,
                                doc_title, chunking_strategy, content, now)
    IN  /\ call.outcome = "added"
        /\ Len(call.index.documents) <= MaxDocuments
        /\ document_files' = IF writes >= 1 THEN call.document_files
                             ELSE document_files
        /\ kb_index_file' = IF writes >= 2 THEN call.index_file ELSE kb_index_file
        /\ collection_files' = IF writes >= 3 THEN call.collection_files
                               ELSE collection_files
        /\ kb_index' = LoadIndex(kb_index_file')
        /\ last' = [op |-> "add_document_crash",
                    collection_name |-> collection_name,
                    doc_id |-> DocId(kb_index, collection_name, now),
                    writes |-> writes,
                    before |-> KBBefore]
        /\ UNCHANGED <<indexVars, ragVars, now>>

\* One collection name, so that no two collections share a file
CrashNames == {"my docs"}

DoCreateCrashCollection ==
    \E collection_name \in CrashNames, description \in Descriptions :
        CreateCollection(collection_name, description)

DoAddCrashDocument ==
    \E collection_name \in CrashNames :
        AddDocument("notes.txt", collection_name, "", "paragraphs",
                    ParseTextFile("notes.txt"))

DoCrashInCreateCollection ==
    \E collection_name \in CrashNames, description \in Descriptions,
       writes \in 1..(CreateCollectionWrites - 1) :
        CrashInCreateCollection(collection_name, description, writes)

DoCrashInAddDocument ==
    \E collection_name \in CrashNames, writes \in 1..(AddDocumentWrites - 1) :
        CrashInAddDocument("notes.txt", collection_name, "", "paragraphs",
                           ParseTextFile("notes.txt"), writes)

NextKBCrash ==
    \/ DoCreateCrashCollection
    \/ DoAddCrashDocument
    \/ DoCrashInCreateCollection
    \/ DoCrashInAddDocument
    \/ Tick

SpecKBCrash == Init /\ [][NextKBCrash]_vars

\* Is doc_id recorded in the document files, in the stored index, in the
\* stored collection of collection_name?
InDocumentFiles(doc_id) == DocumentFileName(doc_id) \in DOMAIN document_files

InStoredIndex(doc_id) == doc_id \in Range(LoadIndex(kb_index_file).documents)

InStoredCollection(doc_id, collection_name) ==
    /\ CollectionFileName(collection_name) \in DOMAIN collection_files
    /\ LET collection == collection_files[CollectionFileName(collection_name)]
       IN  /\ doc_id \in Range(collection.documents)
           /\ collection.document_count = Len(collection.documents)

\* Every document and collection the stored index held before the call is
\* still in the stored index, and its file is as it was
EarlierFilesKept ==
    LET before == LoadIndex(last.before.kb_index_file)
        after == LoadIndex(kb_index_file)
    IN  /\ \A i \in 1..Len(before.documents) :
              /\ i <= Len(after.documents)
              /\ after.documents[i] = before.documents[i]
              /\ LET f == DocumentFileName(before.documents[i])
                 IN  f \in DOMAIN last.before.document_files =>
                        /\ f \in DOMAIN document_files
                        /\ document_files[f] = last.before.document_files[f]
        /\ \A i \in 1..Len(before.collections) :
              /\ i <= Len(after.collections)
              /\ after.collections[i] = before.collections[i]
              /\ LET f == CollectionFileName(before.collections[i])
                 IN  f \in DOMAIN last.before.collection_files =>
                        /\ f \in DOMAIN collection_files
                        /\ collection_files[f] = last.before.collection_files[f]

\* C19: after a crash between the file writes of add_document or
\* create_collection, everything stored before the call is still stored,
\* and the document of the interrupted add_document is either in none of
\* the document files, the stored index and the stored collection, or in
\* all three.
C19_CrashLosesOnlyInFlight ==
    /\ last.op \in {"add_document_crash", "create_collection_crash"} =>
          EarlierFilesKept
    /\ last.op = "add_document_crash" =>
          \/ /\ InDocumentFiles(last.doc_id)
             /\ InStoredIndex(last.doc_id)
             /\ InStoredCollection(last.doc_id, last.collection_name)
          \/ /\ ~InDocumentFiles(last.doc_id)
             /\ ~InStoredIndex(last.doc_id)
             /\ ~InStoredCollection(last.doc_id, last.collection_name)

\* The part of it about what was stored before the call
C19_EarlierFilesKept ==
    last.op \in {"add_document_crash", "create_collection_crash"} =>
        EarlierFilesKept

StoragePosition(r) == CHOOSE i \in 1..Len(entries) : entries[i].pair_id = r.pair_id

SameScore(s1, s2) == SimGeq(s1, s2) /\ SimGeq(s2, s1)

\* Are the equal matches of rs in storage order, and is every entry left out
\* of rs stored behind the matches of rs with which it ties?
TiesInStorageOrder(rs, q, threshold) ==
    /\ \A i, j \in 1..Len(rs) :
          (i < j /\ SameScore(rs[i].similarity_score, rs[j].similarity_score))
          => StoragePosition(rs[i]) < StoragePosition(rs[j])
    /\ \A i \in 1..Len(rs), k \in 1..Len(entries) :
          (/\ \A j \in 1..Len(rs) : rs[j].pair_id # entries[k].pair_id
           /\ SameScore(rs[i].similarity_score,
                        CosineSimilarity(q, entries[k].embedding)))
          => StoragePosition(rs[i]) < k

\* C21: whatever index index_conversation has built, search returns the
\* entries of equal similarity in their storage order; and a re-index leaves
\* every entry that was there, the replaced ones too, at the place it had.
C21_TiesInInsertionOrder ==
    /\ (last.op = "index_conversation" /\ last.outcome = "indexed") =>
          \A i \in 1..Len(last.before.entries) :
              /\ i <= Len(entries)
              /\ entries[i].pair_id = last.before.entries[i].pair_id
    /\ \A q \in QueryVectors, top_k \in 0..MaxTopK, threshold \in Thresholds :
          LET call == SearchCall(entries, Returned(q), top_k, threshold)
          IN  ~call.raised => TiesInStorageOrder(call.results, q, threshold)

\* A re-index has replaced the vector of the first entry, which now ties
\* with the second, and a search returns the two in storage order
C21_Witness ==
    /\ last.op = "index_conversation" /\ last.outcome = "indexed"
    /\ Len(entries) = 2 /\ Len(last.before.entries) = 2
    /\ entries[1].pair_id = last.before.entries[1].pair_id
    /\ entries[1].embedding # last.before.entries[1].embedding
    /\ entries[1].embedding = entries[2].embedding
    /\ LET rs == SearchCall(entries, Returned(<<1, 0>>), 2, <<0, 1>>).results
       IN  /\ Len(rs) = 2
           /\ rs[1].pair_id = entries[1].pair_id
           /\ rs[2].pair_id = entries[2].pair_id

(***************************************************************************)
(* Document files as JSON: SpecKBJson.  json.dump and json.load keep the    *)
(* shape of a document (an object of named members, a list of chunks); the  *)
(* members are written as JSON text and read back from it.                  *)
(***************************************************************************)
\* One character of a string as json.dump writes it
JsonEscapeChar(c) ==
    IF c = "\"" THEN "\\\""
    ELSE IF c = "\\" THEN "\\\\"
    ELSE IF c = "\n" THEN "\\n"
    ELSE IF c = "\r" THEN "\\r"
    ELSE IF c = "\t" THEN "\\t"
    ELSE c

RECURSIVE JsonEscape(_)
JsonEscape(s) ==
    IF s = "" THEN "" ELSE JsonEscapeChar(Ch(s, 1)) \o JsonEscape(Drop(s, 1))

\* json.dump of a str
JsonString(s) == "\"" \o JsonEscape(s) \o "\""

\* The character a backslash and c stand for
JsonUnescapeChar(c) ==
    IF c = "n" THEN "\n"
    ELSE IF c = "r" THEN "\r"
    ELSE IF c = "t" THEN "\t"
    ELSE c

RECURSIVE JsonUnescape(_)
JsonUnescape(t) ==
    IF t = "" THEN ""
    ELSE IF Ch(t, 1) = "\\" /\ Len(t) >= 2
    THEN JsonUnescapeChar(Ch(t, 2)) \o JsonUnescape(Drop(t, 2))
    ELSE Ch(t, 1) \o JsonUnescape(Drop(t, 1))

\* A JSON string read without a look at its escapes
ParseJsonString_Raw(t) == SubSeq(t, 2, Len(t) - 1)

\* json.load of a JSON string
ParseJsonString(t) == JsonUnescape(SubSeq(t, 2, Len(t) - 1))

\* json.dump of an int
JsonNumber(n) == ToString(n)

DigitOf(c) == CHOOSE d \in 0..9 : ToString(d) = c

RECURSIVE ParseDigits(_, _)
ParseDigits(t, value) ==
    IF t = "" THEN value
    ELSE ParseDigits(Drop(t, 1), 10 * value + DigitOf(Ch(t, 1)))

\* json.load of a JSON number without fraction
ParseJsonNumber(t) ==
    IF Ch(t, 1) = "-" THEN 0 - ParseDigits(Drop(t, 1), 0) ELSE ParseDigits(t, 0)

\* json.dump and json.load of a bool
JsonBool(b) == IF b THEN "true" ELSE "false"

ParseJsonBool(t) == t = "true"

JsonChunk(chunk) ==
    [text |-> JsonString(chunk.text), word_count |-> JsonNumber(chunk.word_count)]

ParseJsonChunk(j) ==
    [text |-> ParseJsonString(j.text), word_count |-> ParseJsonNumber(j.word_count)]

\* json.dump(document, f, indent=2)
JsonDumpDocument(document) ==
    [id |-> JsonString(document.id),
     title |-> JsonString(document.title),
     filepath |-> JsonString(document.filepath),
     collection |-> JsonString(document.collection),
     chunks |-> [k \in 1..Len(document.chunks) |-> JsonChunk(document.chunks[k])],
     chunk_count |-> JsonNumber(document.chunk_count),
     total_words |-> JsonNumber(document.total_words),
     added_at |-> JsonNumber(document.added_at),
     indexed |-> JsonBool(document.indexed)]

\* json.load(f) of a document file
JsonLoadDocument(j) ==
    [id |-> ParseJsonString(j.id),
     title |-> ParseJsonString(j.title),
     filepath |-> ParseJsonString(j.filepath),
     collection |-> ParseJsonString(j.collection),
     chunks |-> [k \in 1..Len(j.chunks) |-> ParseJsonChunk(j.chunks[k])],
     chunk_count |-> ParseJsonNumber(j.chunk_count),
     total_words |-> ParseJsonNumber(j.total_words),
     added_at |-> ParseJsonNumber(j.added_at),
     indexed |-> ParseJsonBool(j.indexed)]

\* The documents add_document has handed to _save_document_file so far
WrittenDocuments == IF "written" \in DOMAIN last THEN last.written ELSE <<>>

\* What _load_document_file gives for each document file
LoadedDocumentFiles ==
    [f \in DOMAIN document_files |-> JsonLoadDocument(document_files[f])]

JsonCollectionNames == {"my docs", "a/b"}

JsonDocumentInputs ==
    {<<"notes.txt", "", "paragraphs">>,
     <<"notes.txt", "The \"Guide\"", "sentences">>,
     <<"readme.md", "a\\b", "size">>}

CreateJsonCollection(collection_name, description) ==
    LET call == CreateCollectionCall(kb_index, kb_index_file, collection_files,
                                     collection_name, description, now)
    IN  /\ Len(call.index.collections) <= MaxCollections
        /\ kb_index' = call.index
        /\ kb_index_file' = call.index_file
        /\ collection_files' = call.collection_files
        /\ last' = [op |-> "create_collection", ret |-> call.ret,
                    written |-> WrittenDocuments]
        /\ UNCHANGED <<indexVars, ragVars, document_files, now>>

\* add_document, the document file holding what json.dump writes
AddJsonDocument(filepath, collection_name, doc_title, chunking_strategy, content) ==
    LET call == AddDocumentCall(kb_index, kb_index_file, collection_files,
                                NoFiles, filepath, collection_name,
                                doc_title, chunking_strategy, content, now)
        saved == call.document_files
    IN  /\ Len(call.index.documents) <= MaxDocuments
        /\ kb_index' = call.index
        /\ kb_index_file' = call.index_file
        /\ collection_files' = call.collection_files
        /\ document_files' =
              [f \in DOMAIN saved |-> JsonDumpDocument(saved[f])] @@ document_files
        /\ last' = [op |-> "add_document", ret |-> call.ret,
                    written |-> WrittenDocuments
                                \o [k \in 1..Cardinality(DOMAIN saved) |->
                                       saved[CHOOSE f \in DOMAIN saved : TRUE]]]
        /\ UNCHANGED <<indexVars, ragVars, now>>

\* list_documents() of all collections
ListJsonDocuments ==
    /\ last' = [op |-> "list_documents",
                ret |-> ListDocuments(kb_index, LoadedDocumentFiles, <<>>),
                written |-> WrittenDocuments]
    /\ UNCHANGED <<indexVars, ragVars, kbVars>>

DoCreateJsonCollection ==
    \E collection_name \in JsonCollectionNames, description \in Descriptions :
        CreateJsonCollection(collection_name, description)

DoAddJsonDocument ==
    \E input \in JsonDocumentInputs, collection_name \in JsonCollectionNames :
        \E content \in ParseFileTable[input[1]] :
            AddJsonDocument(input[1], collection_name, input[2], input[3], content)

NextKBJson ==
    \/ DoCreateJsonCollection
    \/ DoAddJsonDocument
    \/ ListJsonDocuments
    \/ Tick

SpecKBJson == Init /\ [][NextKBJson]_vars

\* Do reloaded and document agree in what the claim names?
SameDocument(reloaded, document) ==
    /\ reloaded.id = document.id
    /\ reloaded.chunks = document.chunks
    /\ reloaded.total_words = document.total_words
    /\ reloaded.collection = document.collection

\* C22: every document that add_document has written to a document file
\* reads back from that file, and comes back from list_documents, with the
\* id, the chunk texts and word counts in order, the total word count and
\* the collection name it was written with.
C22_DocumentRoundTrip ==
    \A k \in 1..Len(WrittenDocuments) :
        LET document == WrittenDocuments[k]
            f == DocumentFileName(document.id)
        IN  /\ f \in DOMAIN document_files
            /\ SameDocument(JsonLoadDocument(document_files[f]), document)
            /\ last.op = "list_documents" =>
                  \E i \in 1..Len(last.ret) : SameDocument(last.ret[i], document)

\* list_documents returns two documents that were written, one of them with
\* a blank line inside its chunk
C22_Witness ==
    /\ last.op = "list_documents"
    /\ Len(last.written) = 2
    /\ Len(last.ret) = 2
    /\ \E i \in 1..2 : last.ret[i].chunks[1].text = "One. Two.\n\nThree."

(***************************************************************************)
(* Claims about all-zero vectors                                           *)
(***************************************************************************)
IsZeroVector(v) == \A i \in 1..Len(v) : v[i] = 0

ZeroSimilarity == <<0, 1>>

\* C23: a search over entries of the query's vector length does not raise
\* when the query vector or a stored vector is all-zero; an entry of such a
\* pair is returned only for a threshold <= 0, with the similarity 0, and
\* for a threshold <= 0 it is returned when top_k leaves room for every
\* entry.
C23_ZeroVectorSimilarity ==
    (/\ last.op = "search" /\ entries # <<>> /\ ~last.query_embedding.failed
     /\ \A k \in 1..Len(entries) :
           Len(entries[k].embedding) = Len(last.query_embedding.value)) =>
        /\ ~last.raised
        /\ \A k \in 1..Len(entries) :
              (\/ IsZeroVector(last.query_embedding.value)
               \/ IsZeroVector(entries[k].embedding)) =>
                 /\ \A i \in 1..Len(last.results) :
                       last.results[i].pair_id = entries[k].pair_id =>
                          /\ SameScore(last.results[i].similarity_score,
                                       ZeroSimilarity)
                          /\ ThresholdLeq(last.similarity_threshold, <<0, 1>>)
                 /\ (/\ ThresholdLeq(last.similarity_threshold, <<0, 1>>)
                     /\ Len(entries) <= last.top_k) =>
                       \E i \in 1..Len(last.results) :
                           last.results[i].pair_id = entries[k].pair_id

\* A search with a threshold of 0 returns an entry with an all-zero vector
\* for a query that is not all-zero, scored 0
C23_Witness ==
    /\ last.op = "search" /\ ~last.raised /\ ~last.query_embedding.failed
    /\ ~IsZeroVector(last.query_embedding.value)
    /\ last.similarity_threshold = <<0, 1>>
    /\ \E i \in 1..Len(last.results) :
          /\ IsZeroVector(last.results[i].embedding)
          /\ SameScore(last.results[i].similarity_score, ZeroSimilarity)

(***************************************************************************)
(* EmbeddingIndex.search_by_conversation: SpecConversationSearch           *)
(***************************************************************************)
\* search(query, top_k=100) with the default similarity_threshold of 0.5
CandidatePool == 100
DefaultSearchThreshold == <<1, 2>>

\* [r for r in all_results if r.get("conversation_id") == conversation_id]
OfConversation(rs, conversation_id) ==
    SelectSeq(rs, LAMBDA r : r.conversation_id = conversation_id)

\* search_by_conversation, given what embed_text answers if it is called
SearchByConversationCall(es, query_embedding, conversation_id, top_k) ==
    LET call == SearchCall(es, query_embedding, CandidatePool,
                           DefaultSearchThreshold)
    IN  [raised |-> call.raised,
         embed_called |-> call.embed_called,
         results |-> IF call.raised THEN <<>>
                     ELSE Take(OfConversation(call.results, conversation_id),
                               top_k)]

SearchByConversation(query_embedding, conversation_id, top_k) ==
    LET call == SearchByConversationCall(entries, query_embedding,
                                         conversation_id, top_k)
    IN  /\ last' = [op |-> "search_by_conversation",
                    query_embedding |-> query_embedding,
                    conversation_id |-> conversation_id,
                    top_k |-> top_k,
                    embed_called |-> call.embed_called,
                    raised |-> call.raised,
                    results |-> call.results]
        /\ UNCHANGED <<kbVars, indexVars, ragVars>>

\* The index after a conversation "c2" of n exchanges, each stored with the
\* vector <<1, 0>>, and a conversation "c1" of one exchange with <<1, 1>>
LongIndex(n) ==
    [k \in 1..n |->
        MakeEntry([pair_id |-> PairId("c2", k - 1), conversation_id |-> "c2",
                   user_message |-> "u", assistant_message |-> "a",
                   pair_index |-> k - 1], <<1, 0>>)]
    \o << MakeEntry([pair_id |-> PairId("c1", 0), conversation_id |-> "c1",
                     user_message |-> "u1", assistant_message |-> "a1",
                     pair_index |-> 0], <<1, 1>>) >>

LongIndexSizes == {CandidatePool - 1, CandidatePool, CandidatePool + 1}

InitConversationSearch ==
    /\ entries \in IndexContents \cup {LongIndex(n) : n \in LongIndexSizes}
    /\ index_last_updated = NoTime
    /\ embedding_index = TRUE
    /\ InitRag
    /\ InitKB
    /\ last = [op |-> "init"]

\* One call on the index as it is found: a call changes nothing that a
\* later call reads.
DoSearchByConversation ==
    \E query_embedding \in EmbedTextOutcomes, conversation_id \in ConvIds,
       top_k \in 0..MaxTopK :
        /\ last.op = "init"
        /\ SearchByConversation(query_embedding, conversation_id, top_k)

NextConversationSearch == DoSearchByConversation

SpecConversationSearch == InitConversationSearch /\ [][NextConversationSearch]_vars

\* What the claim gives for the last search_by_conversation: the sorted
\* matches of search, those of the conversation, the first top_k of them
ConversationMatches ==
    Take(OfConversation(SortDesc(ScoreAndFilter(entries,
                                     last.query_embedding.value,
                                     DefaultSearchThreshold)),
                        last.conversation_id),
         last.top_k)

ConversationSearchReturned ==
    /\ last.op = "search_by_conversation"
    /\ entries # <<>>
    /\ ~last.query_embedding.failed
    /\ ~last.raised

\* C24: search_by_conversation returns at most top_k results, all of the
\* given conversation, in descending order of similarity, and they are the
\* matches of search restricted to the conversation and cut to top_k,
\* whatever the size of the index.
C24_ConversationSearch ==
    ConversationSearchReturned =>
        /\ Len(last.results) <= last.top_k
        /\ \A i \in 1..Len(last.results) :
              last.results[i].conversation_id = last.conversation_id
        /\ \A i \in 1..(Len(last.results) - 1) :
              SimGeq(last.results[i].similarity_score,
                     last.results[i + 1].similarity_score)
        /\ last.results = ConversationMatches

\* The same for an index of at most 100 entries
C24_WithinCandidatePool ==
    (ConversationSearchReturned /\ Len(entries) <= CandidatePool) =>
        last.results = ConversationMatches

(***************************************************************************)
(* Claims about what the chunks cover                                      *)
(***************************************************************************)
\* Does part occur in s?
IsSubstring(part, s) ==
    \E i \in 1..(Len(s) - Len(part) + 1) : SubSeq(s, i, i + Len(part) - 1) = part

\* The number of elements of S up to u: with S the units at which the
\* chunks start, the number of the chunk that unit u belongs to
GroupOf(S, u) == Cardinality({x \in S : x <= u})

\* The j-th smallest element of S
Nth(S, j) == CHOOSE x \in S : GroupOf(S, x) = j

\* The paragraphs of text that are not blank, in order
NonBlankParagraphs(text) ==
    SelectSeq(Split(text, "\n\n"), LAMBDA para : Strip(para) # "")

\* Is every one of the units in the chunk of its group, for some way of
\* starting one chunk after the other at a unit?
CoveredInOrder(units, chunks) ==
    \E S \in SUBSET (1..Len(units)) :
        /\ Cardinality(S) = Len(chunks)
        /\ \A u \in 1..Len(units) :
              /\ GroupOf(S, u) >= 1
              /\ IsSubstring(Strip(units[u]), chunks[GroupOf(S, u)].text)

\* Are the chunks the non-blank windows of chunk_size characters at some
\* increasing positions, and is every inked position of text in the last
\* window that starts at or before it?
WindowsCover(text, chunk_size, chunks) ==
    \E S \in SUBSET (1..Len(text)) :
        /\ Cardinality(S) = Len(chunks)
        /\ \A j \in 1..Len(chunks) :
              /\ chunks[j].text
                   = Strip(SubSeq(text, Nth(S, j),
                                  Min(Nth(S, j) + chunk_size - 1, Len(text))))
              /\ Len(chunks[j].text) <= chunk_size
        /\ \A u \in Inked(text) :
              /\ GroupOf(S, u) >= 1
              /\ u < Nth(S, GroupOf(S, u)) + chunk_size

\* C25: with 0 <= overlap < window size, the chunks cover the input in its
\* order: every non-blank paragraph (chunk_by_paragraphs) and every sentence
\* (chunk_by_sentences) occurs in a chunk, the chunks following the order of
\* the input; every position of the text that holds no whitespace lies in a
\* chunk of chunk_by_size, whose chunks are windows of at most chunk_size
\* characters at increasing positions.
C25_ChunksCoverInput ==
    /\ (last.op = "chunk_by_paragraphs" /\ last.overlap < ParagraphChunkLimit) =>
          /\ ~last.raised
          /\ CoveredInOrder(NonBlankParagraphs(last.text), last.chunks)
    /\ (last.op = "chunk_by_sentences" /\ last.overlap < last.sentence_count) =>
          /\ ~last.raised
          /\ CoveredInOrder(StripNonEmpty(SentenceSplit(last.text)), last.chunks)
    /\ (last.op = "chunk_by_size" /\ last.overlap < last.chunk_size) =>
          /\ ~last.raised
          /\ WindowsCover(last.text, last.chunk_size, last.chunks)

\* Windows of three characters that overlap in one cover a text of four
C25_Witness ==
    /\ last.op = "chunk_by_size"
    /\ last.text = "aa.a" /\ last.chunk_size = 3 /\ last.overlap = 1
    /\ last.chunks = <<[text |-> "aa.", word_count |-> 1],
                       [text |-> ".a", word_count |-> 1]>>

(***************************************************************************)
(* RAGEngine.format_context on result lists with long texts: SpecFormat    *)
(***************************************************************************)
MaxResults == 2     \* results in a list that is formatted

\* A text of n + 1 characters whose last character occurs nowhere else
LongText(c, n) == Repeat(c, n) \o "!"

\* Results as search returns them and as the knowledge-base search of the
\* application passes them on, with texts below, at and above the prefix
\* lengths
ConversationResult(pair_index, user_message, assistant_message, score) ==
    [MakeEntry([pair_id |-> PairId("c1", pair_index), conversation_id |-> "c1",
                user_message |-> user_message,
                assistant_message |-> assistant_message,
                pair_index |-> pair_index], <<1, 0>>)
        EXCEPT !.similarity_score = score]

SampleResults ==
    {KBResult,
     [KBResult EXCEPT !.text = LongText("x", KBTextPrefix),
                      !.similarity_score = <<1, 2>>],
     [KBResult EXCEPT !.text = Repeat("x", KBTextPrefix), !.doc_title = "Notes"],
     [type |-> "kb_document", similarity_score |-> <<1, 2>>],
     ConversationResult(0, "u1", "a1", <<1, 1>>),
     ConversationResult(1, LongText("u", MessagePrefix),
                        LongText("a", MessagePrefix), <<1, 2>>),
     ConversationResult(2, Repeat("u", MessagePrefix), "", <<0, 1>>),
     [ConversationResult(3, "u4", "a4", <<1, 2>>) @@ [type |-> "conversation"]
        EXCEPT !.similarity_score = <<1, 2>>]}

InitFormat ==
    /\ entries = <<>>
    /\ index_last_updated = NoTime
    /\ embedding_index = TRUE
    /\ InitRag
    /\ InitKB
    /\ last \in {[op |-> "results", context_results |-> rs] :
                    rs \in SeqsUpTo(SampleResults, MaxResults)}

\* format_context(context_results), once for the list drawn
DoFormatContext ==
    /\ last.op = "results"
    /\ last' = [op |-> "format_context",
                context_results |-> last.context_results,
                ret |-> FormatContext(last.context_results)]
    /\ UNCHANGED <<kbVars, indexVars, ragVars>>

NextFormat == DoFormatContext

SpecFormat == InitFormat /\ [][NextFormat]_vars

ContextOpening == "\n\n=== RELEVANT CONTEXT FROM YOUR KNOWLEDGE BASE ===\n"
ContextClosing == "\n=== END CONTEXT ===\n"

EndsWith(s, suffix) ==
    Len(suffix) <= Len(s) /\ SubSeq(s, Len(s) - Len(suffix) + 1, Len(s)) = suffix

\* s[:n]
Prefix(s, n) == SubSeq(s, 1, IF n < Len(s) THEN n ELSE Len(s))

\* Where the section of result i begins in the text, counted from 0
RECURSIVE SectionStart(_, _)
SectionStart(context_results, i) ==
    IF i = 1 THEN Len(ContextOpening)
    ELSE SectionStart(context_results, i - 1)
         + Len(FormatResult(i - 1, context_results[i - 1]))

SectionOf(ret, context_results, i) ==
    SubSeq(ret, SectionStart(context_results, i) + 1,
           SectionStart(context_results, i + 1))

\* Does section hold label and the first n characters of text, and no more
\* of text?
HoldsPrefix(section, label, text, n) ==
    /\ IsSubstring(label \o Prefix(text, n) \o "...\n", section)
    /\ Len(text) > n => ~IsSubstring(Prefix(text, n + 1), section)

\* Is section the rendering of result as number i?
RendersResult(section, i, result) ==
    IF "type" \in DOMAIN result /\ result.type = "kb_document"
    THEN /\ StartsWith(section, "\n[KB Context " \o ToString(i) \o " ")
         /\ IsSubstring("Document: "
                        \o (IF "doc_title" \in DOMAIN result
                            THEN result.doc_title ELSE "Unknown") \o "\n", section)
         /\ IsSubstring("Collection: "
                        \o (IF "collection" \in DOMAIN result
                            THEN result.collection ELSE "Unknown") \o "\n", section)
         /\ HoldsPrefix(section, "Text: ",
                        IF "text" \in DOMAIN result THEN result.text ELSE "",
                        KBTextPrefix)
    ELSE /\ StartsWith(section, "\n[Conversation " \o ToString(i) \o " ")
         /\ HoldsPrefix(section, "User: ", result.user_message, MessagePrefix)
         /\ HoldsPrefix(section, "Assistant: ", result.assistant_message,
                        MessagePrefix)

\* C26: format_context gives "" for no results; otherwise the opening line,
\* one section for each result in the order of the list, numbered from 1,
\* and the closing line.  The section of a knowledge-base chunk names its
\* document and collection and holds the first 300 characters of its text
\* and no more; every other result is rendered as a conversation pair with
\* the first 200 characters of the user text and of the assistant text.
C26_FormatContext ==
    last.op = "format_context" =>
        LET rs == last.context_results
            n == Len(rs)
        IN  IF n = 0 THEN last.ret = ""
            ELSE /\ StartsWith(last.ret, ContextOpening)
                 /\ EndsWith(last.ret, ContextClosing)
                 /\ Len(last.ret) = SectionStart(rs, n + 1) + Len(ContextClosing)
                 /\ \A i \in 1..n :
                       RendersResult(SectionOf(last.ret, rs, i), i, rs[i])

\* A conversation pair with texts of more than 200 characters is rendered
\* first, a knowledge-base chunk of more than 300 characters second
C26_Witness ==
    /\ last.op = "format_context"
    /\ Len(last.context_results) = 2
    /\ "type" \notin DOMAIN last.context_results[1]
    /\ Len(last.context_results[1].user_message) > MessagePrefix
    /\ "text" \in DOMAIN last.context_results[2]
    /\ Len(last.context_results[2].text) > KBTextPrefix
    /\ IsSubstring("[Conversation 1 ", last.ret)
    /\ IsSubstring("[KB Context 2 ", last.ret)

(***************************************************************************)
(* Claims about the ownership of documents                                 *)
(***************************************************************************)
\* The stored document list of a collection, empty when it has no file
StoredDocumentList(collection_name) ==
    IF CollectionFileName(collection_name) \in DOMAIN collection_files
    THEN collection_files[CollectionFileName(collection_name)].documents
    ELSE <<>>

\* The places in the list of registered collections of those whose stored
\* document list names doc_id
OwnersOf(doc_id) ==
    {i \in 1..Len(kb_index.collections) :
        doc_id \in Range(StoredDocumentList(kb_index.collections[i]))}

OwnedByItsCollection(doc_id) ==
    /\ Cardinality(OwnersOf(doc_id)) = 1
    /\ DocumentFileName(doc_id) \in DOMAIN document_files =>
          \A i \in OwnersOf(doc_id) :
              document_files[DocumentFileName(doc_id)].collection
                  = kb_index.collections[i]

\* C27: every document id of the index is in the stored document list of
\* exactly one registered collection, which is the collection named in the
\* document.
C27_OneOwningCollection ==
    \A k \in 1..Len(kb_index.documents) : OwnedByItsCollection(kb_index.documents[k])

\* Do the registered collections have files of their own, which can be
\* written?
CollectionFilesApart ==
    \A i, j \in 1..Len(kb_index.collections) :
        /\ Writable(CollectionFileName(kb_index.collections[i]))
        /\ i # j => CollectionFileName(kb_index.collections[i])
                      # CollectionFileName(kb_index.collections[j])

\* The same while no two registered names share a collection file
C27_OwnerWithFilesApart ==
    CollectionFilesApart => C27_OneOwningCollection

\* What is stored of a registered collection: description, document list
\* and count, <<>> when there is no file
StoredCollection(files, collection_name) ==
    IF CollectionFileName(collection_name) \in DOMAIN files
    THEN LET collection == files[CollectionFileName(collection_name)]
         IN  <<collection.description, collection.documents,
               collection.document_count>>
    ELSE <<>>

\* C28: a create_collection(name) that returns True leaves what is stored
\* of every other registered collection as it was: description, document
\* list and document count - also for a name that differs from name in
\* letter case or in a space against an underscore only.
C28_CreateLeavesOthersAlone ==
    (last.op = "create_collection" /\ last.ret) =>
        \A other \in Range(last.before.kb_index.collections) :
            other # last.collection_name =>
                StoredCollection(collection_files, other)
                    = StoredCollection(last.before.collection_files, other)

\* The same for a name whose file no registered collection uses
C28_CreateWithFileOfItsOwn ==
    (/\ last.op = "create_collection"
     /\ last.ret
     /\ \A other \in Range(last.before.kb_index.collections) :
           CollectionFileName(other) # CollectionFileName(last.collection_name))
    => C28_CreateLeavesOthersAlone

(***************************************************************************)
(* The Vector Index indexed and searched in turn: SpecIndexUse             *)
(***************************************************************************)
DoSearchIndexed ==
    \E query_embedding \in EmbedTextOutcomes :
        Search(query_embedding, MaxTopK, DefaultSearchThreshold)

DoSearchIndexedConversation ==
    \E query_embedding \in EmbedTextOutcomes, conversation_id \in ConvIds :
        SearchByConversation(query_embedding, conversation_id, MaxTopK)

NextIndexUse ==
    \/ DoIndexConversation
    \/ DoSearchIndexed
    \/ DoSearchIndexedConversation

SpecIndexUse == Init /\ [][NextIndexUse]_vars

\* Is pair_id one of the keys the call recorded in l has written?
Reindexed(l, pair_id) ==
    /\ l.op = "index_conversation"
    /\ l.outcome = "indexed"
    /\ \E k \in 1..ZipLen(l.pair_metadata, l.embeddings.value) :
          l.pair_metadata[k].pair_id = pair_id

\* C29: in every step the entries that were there stay at their places,
\* each one unchanged unless the step is an index_conversation that got
\* vectors and wrote its key; so the number of entries never goes down, and
\* no stored entry ever has a similarity_score.  An index_conversation
\* without pairs or without vectors changes neither the entries nor
\* last_updated, and search and search_by_conversation change neither.
C29_EntriesOnlyReplaced ==
    [][ /\ Len(entries') >= Len(entries)
        /\ \A i \in 1..Len(entries) :
              /\ entries'[i].pair_id = entries[i].pair_id
              /\ entries'[i] # entries[i] => Reindexed(last', entries[i].pair_id)
        /\ \A i \in 1..Len(entries') : entries'[i].similarity_score = NoScore
        /\ (/\ last'.op = "index_conversation"
            /\ last'.outcome \in {"no_pairs", "embed_failed"}) =>
              UNCHANGED <<entries, index_last_updated>>
        /\ last'.op \in {"search", "search_by_conversation"} =>
              UNCHANGED <<entries, index_last_updated>>
      ]_vars

\* A search has returned a scored copy of an entry that is stored without
\* a score
C29_Witness ==
    /\ last.op = "search"
    /\ Len(last.results) >= 1
    /\ last.results[1].similarity_score # NoScore
    /\ \E i \in 1..Len(entries) :
          /\ entries[i].pair_id = last.results[1].pair_id
          /\ entries[i].similarity_score = NoScore

(***************************************************************************)
(* Claims about the pairing of messages                                    *)
(***************************************************************************)
\* The k-th user message of a history has the content "u" and k, and the
\* reply to it "a" and k: is assistant_message the reply to user_message?
RepliesTo(assistant_message, user_message) ==
    After(assistant_message, 1) = After(user_message, 1)

\* Are the pairs keyed by their place, from 0, and is each one a user
\* message with the reply to it?
PairsAligned(conversation_id, pair_metadata) ==
    \A k \in 1..Len(pair_metadata) :
        /\ pair_metadata[k].pair_id = PairId(conversation_id, k - 1)
        /\ pair_metadata[k].conversation_id = conversation_id
        /\ RepliesTo(pair_metadata[k].assistant_message,
                     pair_metadata[k].user_message)

\* C30: the pairs index_conversation makes of a history are keyed
\* "{conversation_id}_pair_{n}" in their order, and each one holds a user
\* message and the assistant message that replied to it - also for a
\* history in which a user message got no reply.
C30_PairsUserWithItsReply ==
    last.op = "index_conversation" =>
        PairsAligned(last.conversation_id, last.pair_metadata)

\* The same for the histories in which every user message got its reply:
\* one pair for each exchange
C30_CompleteHistoriesPaired ==
    \A replied \in ReplyPatterns, conversation_id \in ConvIds :
        (\A k \in 1..Len(replied) : replied[k]) =>
            LET pair_metadata == PairMetadata(conversation_id, HistoryOf(replied, 1))
            IN  /\ Len(pair_metadata) = Len(replied)
                /\ PairsAligned(conversation_id, pair_metadata)

====
